---- MODULE Spec2Model ----
(***************************************************************************)
(* The WASI sockets/tcp host implementation of wasmtime:                   *)
(*   crates/wasi/src/host/tcp.rs      the guest-facing TcpSocketResource   *)
(*                                    and its TcpState state machine       *)
(*   crates/wasi/src/tcp.rs           SystemTcpSocket, the OS backend      *)
(*   crates/wasi/src/host/network.rs  error mapping, address validation    *)
(* The guest holds handles into a resource table; every guest call is one  *)
(* action.  The operating system is the environment: the outcome of each   *)
(* system call is an input of the action that issues it, and incoming      *)
(* connections and connect completions are actions of their own.           *)
(***************************************************************************)
EXTENDS Integers, Sequences, FiniteSets, TLC

(* ------------------------------ bounds --------------------------------- *)

\* Capacity of the resource table for socket resources.
MaxSockets == 3

\* The guest creates a socket only while fewer than this many handles are
\* open.
MaxCreated == 1

\* Number of OS socket handles the process may have open at a time.
MaxHandles == 2

\* Length of the OS accept queue of a listening handle.
MaxQueue == 1

\* The guest sets at most this many of a socket's options.
MaxOptions == 1

\* Number of OS socket handles of the process in the loopback scenario: the
\* listener's, the connecting socket's and the accepted connection's.
LoopbackHandles == 3

\* Number of times the reactor reports a handle ready with nothing new
\* behind the report.
MaxReports == 2

Sockets == 1..MaxSockets
Handles == 1..MaxHandles

(* ----------------------- build target (cfg!) --------------------------- *)

Targets == {"linux", "macos", "windows"}

(* ------------------------- error taxonomy ------------------------------ *)

\* io::Error: either carries a native errno, or is a custom error of a kind.
NoErrno == "NONE"

\* std's io::Error::kind() of an error made from a native errno, for the
\* errnos the model's OS can return.
decode_error_kind(errno) ==
    CASE errno \in {"EAGAIN", "EWOULDBLOCK"} -> "WouldBlock"
      [] errno = "EINTR" -> "Interrupted"
      [] errno = "EADDRINUSE" -> "AddrInUse"
      [] errno = "EADDRNOTAVAIL" -> "AddrNotAvailable"
      [] errno = "ECONNABORTED" -> "ConnectionAborted"
      [] errno = "ECONNREFUSED" -> "ConnectionRefused"
      [] errno = "ECONNRESET" -> "ConnectionReset"
      [] errno = "ENOTCONN" -> "NotConnected"
      [] errno = "EINVAL" -> "InvalidInput"
      [] errno = "ETIMEDOUT" -> "TimedOut"
      [] errno \in {"EPERM", "EACCES"} -> "PermissionDenied"
      [] errno = "ENOMEM" -> "OutOfMemory"
      [] errno = "EHOSTUNREACH" -> "HostUnreachable"
      [] errno = "ENETUNREACH" -> "NetworkUnreachable"
      [] errno = "ENETDOWN" -> "NetworkDown"
      [] errno = "EPIPE" -> "BrokenPipe"
      [] errno = "ENOSYS" -> "Unsupported"
      [] OTHER -> "Uncategorized"

\* An io::Error made from a native errno (`errno.into()`).
OsError(errno) == [errno |-> errno, kind |-> decode_error_kind(errno)]

\* An io::Error made with io::Error::new(kind, message).
CustomError(kind) == [errno |-> NoErrno, kind |-> kind]

\* impl From<Errno> for ErrorCode
ErrnoToErrorCode(value, target) ==
    CASE value \in {"EWOULDBLOCK", "EAGAIN", "EINTR"} -> "WouldBlock"
      [] value = "EPERM" /\ target # "windows" -> "AccessDenied"
      [] value = "EACCES" -> "AccessDenied"
      [] value = "EADDRINUSE" -> "AddressInUse"
      [] value = "EADDRNOTAVAIL" -> "AddressNotBindable"
      [] value = "EALREADY" -> "ConcurrencyConflict"
      [] value = "ETIMEDOUT" -> "Timeout"
      [] value = "ECONNREFUSED" -> "ConnectionRefused"
      [] value = "ECONNRESET" -> "ConnectionReset"
      [] value = "ECONNABORTED" -> "ConnectionAborted"
      [] value = "EINVAL" -> "InvalidArgument"
      [] value \in {"EHOSTUNREACH", "EHOSTDOWN", "ENETDOWN", "ENETUNREACH"} -> "RemoteUnreachable"
      [] value = "ENONET" /\ target = "linux" -> "RemoteUnreachable"
      [] value \in {"EISCONN", "ENOTCONN", "EDESTADDRREQ"} -> "InvalidState"
      [] value = "ENFILE" /\ target # "windows" -> "NewSocketLimit"
      [] value = "EMFILE" -> "NewSocketLimit"
      [] value = "EMSGSIZE" -> "DatagramTooLarge"
      [] value = "ENOMEM" /\ target # "windows" -> "OutOfMemory"
      [] value = "ENOBUFS" -> "OutOfMemory"
      [] value \in {"EOPNOTSUPP", "ENOPROTOOPT", "EPFNOSUPPORT", "EPROTONOSUPPORT",
                    "EPROTOTYPE", "ESOCKTNOSUPPORT", "EAFNOSUPPORT"} -> "NotSupported"
      [] OTHER -> "Unknown"

\* The kinds of the match on value.kind()
TabledKinds ==
    {"AddrInUse", "AddrNotAvailable", "ConnectionAborted", "ConnectionRefused",
     "ConnectionReset", "Interrupted", "InvalidInput", "NotConnected", "OutOfMemory",
     "PermissionDenied", "TimedOut", "Unsupported", "WouldBlock"}

\* The conversion looking at the kind first and at the native errno only
\* for a kind its match does not name.
IoErrorToErrorCode_kind_first(value, target) ==
    IF value.errno # NoErrno /\ value.kind \notin TabledKinds
    THEN ErrnoToErrorCode(value.errno, target)
    ELSE CASE value.kind = "AddrInUse" -> "AddressInUse"
           [] value.kind = "AddrNotAvailable" -> "AddressNotBindable"
           [] value.kind = "ConnectionAborted" -> "ConnectionAborted"
           [] value.kind = "ConnectionRefused" -> "ConnectionRefused"
           [] value.kind = "ConnectionReset" -> "ConnectionReset"
           [] value.kind = "Interrupted" -> "WouldBlock"
           [] value.kind = "InvalidInput" -> "InvalidArgument"
           [] value.kind = "NotConnected" -> "InvalidState"
           [] value.kind = "OutOfMemory" -> "OutOfMemory"
           [] value.kind = "PermissionDenied" -> "AccessDenied"
           [] value.kind = "TimedOut" -> "Timeout"
           [] value.kind = "Unsupported" -> "NotSupported"
           [] value.kind = "WouldBlock" -> "WouldBlock"
           [] OTHER -> "Unknown"

\* impl From<io::Error> for ErrorCode: the native errno first, then the kind.
IoErrorToErrorCode(value, target) ==
    IF value.errno # NoErrno
    THEN ErrnoToErrorCode(value.errno, target)
    ELSE CASE value.kind = "AddrInUse" -> "AddressInUse"
           [] value.kind = "AddrNotAvailable" -> "AddressNotBindable"
           [] value.kind = "ConnectionAborted" -> "ConnectionAborted"
           [] value.kind = "ConnectionRefused" -> "ConnectionRefused"
           [] value.kind = "ConnectionReset" -> "ConnectionReset"
           [] value.kind = "Interrupted" -> "WouldBlock"
           [] value.kind = "InvalidInput" -> "InvalidArgument"
           [] value.kind = "NotConnected" -> "InvalidState"
           [] value.kind = "OutOfMemory" -> "OutOfMemory"
           [] value.kind = "PermissionDenied" -> "AccessDenied"
           [] value.kind = "TimedOut" -> "Timeout"
           [] value.kind = "Unsupported" -> "NotSupported"
           [] value.kind = "WouldBlock" -> "WouldBlock"
           [] OTHER -> "Unknown"

\* The native errnos of a target: those the conversion names, where the
\* target has them (Windows has no EPERM, ENFILE and ENOMEM, only Linux of
\* the three has ENONET), and some it does not name (EINPROGRESS,
\* ENETRESET, EBADF and, off Windows, EPIPE and ENOSYS).
Errnos(target) ==
    {"EWOULDBLOCK", "EAGAIN", "EINTR", "EACCES", "EADDRINUSE", "EADDRNOTAVAIL", "EALREADY",
     "ETIMEDOUT", "ECONNREFUSED", "ECONNRESET", "ECONNABORTED", "EINVAL", "EHOSTUNREACH",
     "EHOSTDOWN", "ENETDOWN", "ENETUNREACH", "EISCONN", "ENOTCONN", "EDESTADDRREQ",
     "EMFILE", "EMSGSIZE", "ENOBUFS", "EOPNOTSUPP", "ENOPROTOOPT", "EPFNOSUPPORT",
     "EPROTONOSUPPORT", "EPROTOTYPE", "ESOCKTNOSUPPORT", "EAFNOSUPPORT",
     "EINPROGRESS", "ENETRESET", "EBADF"}
    \cup (IF target = "windows" THEN {} ELSE {"EPERM", "ENFILE", "ENOMEM", "EPIPE", "ENOSYS"})
    \cup (IF target = "linux" THEN {"ENONET"} ELSE {})

\* The io::Errors of a target: made from a native errno, or made of a kind.
IoErrors(target) ==
    {OsError(errno) : errno \in Errnos(target)}
    \cup {CustomError(kind) : kind \in TabledKinds \cup {"Other", "BrokenPipe", "UnexpectedEof",
                                                        "HostUnreachable", "NotFound"}}

(* ------------------------------ addresses ------------------------------ *)

\* std::net::SocketAddr.  A V4 address has four octets, a V6 address eight
\* 16-bit segments.
V4(a, b, c, d, port) == [v |-> "V4", ip |-> <<a, b, c, d>>, port |-> port]
V6(segs, port) == [v |-> "V6", ip |-> segs, port |-> port]

\* Ipv6Addr::to_ipv4_mapped: ::ffff:a.b.c.d
is_ipv4_mapped(ip) ==
    /\ \A i \in 1..5 : ip[i] = 0
    /\ ip[6] = 65535

to_ipv4_mapped(ip) ==
    <<ip[7] \div 256, ip[7] % 256, ip[8] \div 256, ip[8] % 256>>

\* util::to_canonical, on the IP part of an address
to_canonical(addr) ==
    IF addr.v = "V6" /\ is_ipv4_mapped(addr.ip)
    THEN [v |-> "V4", ip |-> to_ipv4_mapped(addr.ip), port |-> addr.port]
    ELSE addr

is_unspecified(addr) == \A i \in DOMAIN addr.ip : addr.ip[i] = 0

ipv4_is_multicast(ip) == ip[1] >= 224 /\ ip[1] <= 239
ipv4_is_broadcast(ip) == \A i \in 1..4 : ip[i] = 255
ipv6_is_multicast(ip) == ip[1] \div 256 = 255

Ipv6Unspecified == <<0, 0, 0, 0, 0, 0, 0, 0>>
Ipv6Localhost == <<0, 0, 0, 0, 0, 0, 0, 1>>

\* util::is_deprecated_ipv4_compatible
is_deprecated_ipv4_compatible(ip) ==
    /\ \A i \in 1..6 : ip[i] = 0
    /\ ip # Ipv6Unspecified
    /\ ip # Ipv6Localhost

\* util::validate_unicast: Ok, or the io::Error
validate_unicast(addr) ==
    LET c == to_canonical(addr)
    IN  IF c.v = "V4"
        THEN IF ipv4_is_multicast(c.ip) \/ ipv4_is_broadcast(c.ip) THEN "InvalidInput" ELSE "Ok"
        ELSE IF ipv6_is_multicast(c.ip) THEN "InvalidInput" ELSE "Ok"

\* validate_remote_address letting port 0 through.
validate_remote_address_any_port(addr) ==
    IF is_unspecified(to_canonical(addr)) THEN "InvalidInput"
    ELSE "Ok"

\* util::validate_remote_address
validate_remote_address(addr) ==
    IF is_unspecified(to_canonical(addr)) THEN "InvalidInput"
    ELSE IF addr.port = 0 THEN "InvalidInput"
    ELSE "Ok"

\* validate_address_family letting an IPv4-mapped address through on a V6
\* socket.
validate_address_family_mapped(addr, socket_family) ==
    CASE socket_family = "V4" /\ addr.v = "V4" -> "Ok"
      [] socket_family = "V6" /\ addr.v = "V6" ->
            IF is_deprecated_ipv4_compatible(addr.ip) THEN "InvalidInput"
            ELSE "Ok"
      [] OTHER -> "InvalidInput"

\* util::validate_address_family
validate_address_family(addr, socket_family) ==
    CASE socket_family = "V4" /\ addr.v = "V4" -> "Ok"
      [] socket_family = "V6" /\ addr.v = "V6" ->
            IF is_deprecated_ipv4_compatible(addr.ip) THEN "InvalidInput"
            ELSE IF is_ipv4_mapped(addr.ip) THEN "InvalidInput"
            ELSE "Ok"
      [] OTHER -> "InvalidInput"

\* The IP addresses a guest passes in: one of each class the validations
\* distinguish.
IpAddrs ==
    { <<127, 0, 0, 1>>, <<0, 0, 0, 0>>,
      <<224, 0, 0, 1>>, <<255, 255, 255, 255>>,
      Ipv6Unspecified, Ipv6Localhost,
      <<65282, 0, 0, 0, 0, 0, 0, 1>>,
      <<0, 0, 0, 0, 0, 65535, 32512, 1>>,
      <<0, 0, 0, 0, 0, 65535, 0, 0>>,
      <<0, 0, 0, 0, 0, 0, 32512, 1>> }

Ports == {0, 80}

SocketAddrs ==
    { [v |-> IF Len(ip) = 4 THEN "V4" ELSE "V6", ip |-> ip, port |-> p] :
        ip \in IpAddrs, p \in Ports }

(* ------------------------------- state --------------------------------- *)

VARIABLES
    target_os,  \* the platform the host was built for (cfg!(target_os))
    table,      \* the resource table: socket handle -> TcpSocketResource
    os,         \* the operating system's state of each socket handle
    streams,    \* the TcpReader and TcpWriter made for each handle
    last        \* the latest call: operation, arguments, result, syscalls

vars == <<target_os, table, os, streams, last>>

\* enum TcpState
Default == [tag |-> "Default"]
BindStarted == [tag |-> "BindStarted"]
Bound == [tag |-> "Bound"]
ListenStarted == [tag |-> "ListenStarted"]
Listening(pending_result) == [tag |-> "Listening", pending_result |-> pending_result]
Connecting(future) == [tag |-> "Connecting", future |-> future]
Connected == [tag |-> "Connected"]

\* io::Result: Ok(()), Ok((client, reader, writer)) or Err(e)
IoOk == [tag |-> "Ok"]
OkClient(client) == [tag |-> "Ok", client |-> client]
Err(e) == [tag |-> "Err", err |-> e]

\* Option<io::Result<(SystemTcpSocket, TcpReader, TcpWriter)>>
None == [tag |-> "None"]
Some(result) == [tag |-> "Some", result |-> result]

\* Preview2Future<io::Result<(TcpReader, TcpWriter)>>: still to be polled,
\* or holding its result
Pending == [tag |-> "Pending"]
Ready(result) == [tag |-> "Ready", result |-> result]

\* SystemTcpSocket::DEFAULT_BACKLOG_SIZE
DEFAULT_BACKLOG_SIZE == 128

\* SystemTcpSocket::from_fd: the backend object around handle `fd`.
\* hop_limit is the copy the macOS build keeps of the value set.
\* receive_buffer_size, send_buffer_size and keep_alive_idle_time are,
\* like hop_limit, the copies the macOS build keeps of the values set.
from_fd(fd, family) ==
    [stream |-> fd,
     listen_backlog_size |-> DEFAULT_BACKLOG_SIZE,
     is_listening |-> FALSE,
     family |-> family,
     hop_limit |-> None,
     receive_buffer_size |-> None,
     send_buffer_size |-> None,
     keep_alive_idle_time |-> None]

\* A handle the process does not hold.
ClosedHandle ==
    [open |-> FALSE, reuseaddr |-> FALSE, listening |-> FALSE,
     acceptq |-> 0, readable |-> FALSE, conn |-> "none", shut |-> "none",
     writable |-> FALSE, rcvq |-> 0, sndfull |-> FALSE, reports |-> 0,
     ip_ttl |-> 0, ipv6_unicast_hops |-> 0,
     backlog |-> 0, so_rcvbuf |-> 0, so_sndbuf |-> 0,
     tcp_keepidle |-> <<0, 0>>, tcp_keepintvl |-> <<0, 0>>, tcp_keepcnt |-> 0]

\* readable and writable are what the reactor holds of the handle's
\* readiness; rcvq counts what was received and not yet read, sndfull says
\* that the send buffer takes no more, and reports counts the times the
\* reactor reported readiness with nothing new behind it.
\* A handle fresh from socket() or accept(), its IP_TTL and
\* IPV6_UNICAST_HOPS at the system's default of 64.  backlog is the backlog
\* of the last listen call that succeeded; so_rcvbuf, so_sndbuf,
\* tcp_keepidle (seconds, nanoseconds), tcp_keepintvl and tcp_keepcnt are
\* the values the process set, zero while it has set none.
FreshHandle(conn) ==
    [ClosedHandle EXCEPT !.open = TRUE, !.conn = conn,
                         !.ip_ttl = 64, !.ipv6_unicast_hops = 64]

\* The accepted client a socket resource holds in its pending_result:
\* its handle, or 0.
PendingClient(resource) ==
    IF /\ resource.tcp_state.tag = "Listening"
       /\ resource.tcp_state.pending_result.tag = "Some"
       /\ resource.tcp_state.pending_result.result.tag = "Ok"
    THEN resource.tcp_state.pending_result.result.client.stream
    ELSE 0

\* No TcpReader / TcpWriter of a handle exists; both exist inside a future
\* or a pending_result ("held"); each is a stream resource of the guest
\* ("live").
NoStreams == [reader |-> "none", writer |-> "none"]
HeldStreams == [reader |-> "held", writer |-> "held"]

\* stream: Arc<tokio::net::TcpStream>.  Handle h is held, in table tbl with
\* streams st, by a socket resource, by an accepted client in a
\* pending_result, or by a reader or writer.
Held(h, tbl, st) ==
    \/ \E s \in DOMAIN tbl : tbl[s].inner.stream = h \/ PendingClient(tbl[s]) = h
    \/ st[h].reader # "none"
    \/ st[h].writer # "none"

\* The handle closed as soon as no socket resource holds it.
Release_with_socket(osf, tbl, st) ==
    [h \in DOMAIN osf |->
        IF \E s \in DOMAIN tbl : tbl[s].inner.stream = h \/ PendingClient(tbl[s]) = h
        THEN osf[h] ELSE ClosedHandle]

\* The last Arc dropped closes the handle.
Release(osf, tbl, st) ==
    [h \in DOMAIN osf |-> IF Held(h, tbl, st) THEN osf[h] ELSE ClosedHandle]

FreeSlots == Sockets \ DOMAIN table
FreeHandles == {h \in DOMAIN os : ~os[h].open}

\* The lowest of a nonempty set of numbers: the slot or descriptor handed out.
Lowest(S) == CHOOSE x \in S : \A y \in S : x <= y

NoAddr == [v |-> "none", ip |-> <<>>, port |-> 0]

\* What a call on no socket resource finds.
NoSocket == [inner |-> from_fd(0, "none"), tcp_state |-> [tag |-> "none"]]

\* The record of a call: the operation, the socket it was made on, the
\* network capability's verdict and the address passed (where the operation
\* takes them), the result code, the system calls issued on the way, the
\* socket returned (accept), and what the call found: the socket resource
\* and the OS state of its handle as they were when the call was made.
\* value is the number passed to, or returned by, a call about the hop
\* limit; arg is the u64 or u32 passed to another option setter, and sent
\* what the call handed to the OS: a number, or the seconds and nanoseconds
\* of a Duration; answer is what the OS answered to that.  err is the
\* io::Error a conversion into an error code was given.
Call(op, this, verdict, addr, res, sys, child) ==
    [op |-> op, this |-> this, verdict |-> verdict, addr |-> addr,
     res |-> res, sys |-> sys, child |-> child, value |-> 0,
     arg |-> <<0, 0, 0>>, sent |-> <<>>, answer |-> "Ok", err |-> CustomError("none"),
     pre |-> IF this \in DOMAIN table THEN table[this] ELSE NoSocket,
     pre_os |-> IF this \in DOMAIN table THEN os[table[this].inner.stream]
                ELSE ClosedHandle]

Plain(op, this, res, sys) == Call(op, this, "Allow", NoAddr, res, sys, 0)

\* The record of a call on a stream resource, a SystemTcpReader or
\* SystemTcpWriter: no socket resource is involved; what the call found is
\* the handle its Arc holds and the OS state of that handle.
StreamCall(op, fd, res, sys) ==
    [op |-> op, this |-> 0, verdict |-> "Allow", addr |-> NoAddr,
     res |-> res, sys |-> sys, child |-> 0, value |-> 0,
     arg |-> <<0, 0, 0>>, sent |-> <<>>, answer |-> "Ok", err |-> CustomError("none"),
     pre |-> [inner |-> from_fd(fd, "none"), tcp_state |-> [tag |-> "none"]],
     pre_os |-> os[fd]]

\* The record of a call that sets or reads an option of the socket.
OptionCall(op, this, value, res, sys) == [Plain(op, this, res, sys) EXCEPT !.value = value]

\* The record of a call of an option setter that takes a u64 or a u32.
SetterCall(op, this, arg, res, sys, sent) ==
    [Plain(op, this, res, sys) EXCEPT !.arg = arg, !.sent = sent]

\* What is not a guest call: the state after construction, a step of the OS.
Idle == Plain("none", 0, "Ok", <<>>)

Boot ==
    /\ table = <<>>
    /\ os = [h \in Handles |-> ClosedHandle]
    /\ streams = [h \in Handles |-> NoStreams]
    /\ last = Idle

\* The host as built for Linux, and as built for any of the targets.
Init == target_os = "linux" /\ Boot
InitAnyTarget == target_os \in Targets /\ Boot

(* --------------------- SystemTcpSocket (crates/wasi/src/tcp.rs) -------- *)

\* The outcome of a backend call: its io::Result, the backend object and
\* the handle's OS state afterwards, and the system calls it issued.
Outcome(result, inner, osh, sys) == [result |-> result, inner |-> inner, os |-> osh, sys |-> sys]

\* The outcome of a backend call that passes a number to the OS: as
\* Outcome, and what the call handed over.
OptionOutcome(result, inner, osh, sys, sent) ==
    [result |-> result, inner |-> inner, os |-> osh, sys |-> sys, sent |-> sent]

\* SystemTcpSocket::set_reuseaddr: a no-op on Windows
set_reuseaddr(osh, value, target) ==
    IF target = "windows" THEN osh ELSE [osh EXCEPT !.reuseaddr = value]

\* Errnos the OS bind call fails with.
BindErrnos == {"EADDRINUSE", "ENOBUFS"}

\* Errnos the setsockopt call of set_reuseaddr fails with.
ReuseaddrErrnos == {"ENOBUFS"}

\* bind setting SO_REUSEADDR for a specific port only, and leaving the
\* option as it is for port 0.
bind_reuse_for_port_only(inner, osh, local_address, os_set, os_bind, target) ==
    IF validate_unicast(local_address) # "Ok"
    THEN Outcome(Err(CustomError("InvalidInput")), inner, osh, <<>>)
    ELSE IF validate_address_family(local_address, inner.family) # "Ok"
    THEN Outcome(Err(CustomError("InvalidInput")), inner, osh, <<>>)
    ELSE LET reuse_addr == local_address.port > 0
             os1 == IF reuse_addr THEN set_reuseaddr(osh, reuse_addr, target) ELSE osh
             sys == IF target = "windows" THEN <<"bind">> ELSE <<"setsockopt", "bind">>
         IN  IF target # "windows" /\ os_set # "Ok"
             THEN Outcome(Err(OsError(os_set)), inner, osh, <<"setsockopt">>)
             ELSE IF os_bind = "Ok"
             THEN Outcome(IoOk, inner, os1, sys)
             ELSE IF target = "windows" /\ os_bind = "ENOBUFS"
             THEN Outcome(Err(OsError("EADDRINUSE")), inner, os1, sys)
             ELSE Outcome(Err(OsError(os_bind)), inner, os1, sys)

\* SystemTcpSocket::bind; os_set is the answer of the OS to the setsockopt
\* call of set_reuseaddr (no call is made on Windows) and os_bind the OS
\* bind call's answer
bind(inner, osh, local_address, os_set, os_bind, target) ==
    IF validate_unicast(local_address) # "Ok"
    THEN Outcome(Err(CustomError("InvalidInput")), inner, osh, <<>>)
    ELSE IF validate_address_family(local_address, inner.family) # "Ok"
    THEN Outcome(Err(CustomError("InvalidInput")), inner, osh, <<>>)
    ELSE LET reuse_addr == local_address.port > 0
             os1 == set_reuseaddr(osh, reuse_addr, target)
             sys == IF target = "windows" THEN <<"bind">> ELSE <<"setsockopt", "bind">>
         IN  IF target # "windows" /\ os_set # "Ok"
             THEN Outcome(Err(OsError(os_set)), inner, osh, <<"setsockopt">>)
             ELSE IF os_bind = "Ok"
             THEN Outcome(IoOk, inner, os1, sys)
             ELSE IF target = "windows" /\ os_bind = "ENOBUFS"
             THEN Outcome(Err(OsError("EADDRINUSE")), inner, os1, sys)
             ELSE Outcome(Err(OsError(os_bind)), inner, os1, sys)

\* Errnos the OS listen call fails with.
ListenErrnos == {"EADDRINUSE", "EMFILE"}

\* listen asking for the default backlog whatever the socket has stored.
listen_default_backlog(inner, osh, os_listen, target) ==
    IF inner.is_listening
    THEN OptionOutcome(Err(CustomError("Other")), inner, osh, <<>>, <<>>)
    ELSE IF os_listen = "Ok"
    THEN OptionOutcome(IoOk, [inner EXCEPT !.is_listening = TRUE],
                       [osh EXCEPT !.listening = TRUE, !.backlog = DEFAULT_BACKLOG_SIZE],
                       <<"listen">>, <<DEFAULT_BACKLOG_SIZE>>)
    ELSE IF target = "windows" /\ os_listen = "EMFILE"
    THEN OptionOutcome(Err(OsError("ENOBUFS")), inner, osh, <<"listen">>,
                       <<DEFAULT_BACKLOG_SIZE>>)
    ELSE OptionOutcome(Err(OsError(os_listen)), inner, osh, <<"listen">>,
                       <<DEFAULT_BACKLOG_SIZE>>)

\* listen leaving is_listening as it is when the OS listen call succeeds.
listen_unflagged(inner, osh, os_listen, target) ==
    IF inner.is_listening
    THEN OptionOutcome(Err(CustomError("Other")), inner, osh, <<>>, <<>>)
    ELSE IF os_listen = "Ok"
    THEN OptionOutcome(IoOk, inner,
                       [osh EXCEPT !.listening = TRUE, !.backlog = inner.listen_backlog_size],
                       <<"listen">>, <<inner.listen_backlog_size>>)
    ELSE IF target = "windows" /\ os_listen = "EMFILE"
    THEN OptionOutcome(Err(OsError("ENOBUFS")), inner, osh, <<"listen">>,
                       <<inner.listen_backlog_size>>)
    ELSE OptionOutcome(Err(OsError(os_listen)), inner, osh, <<"listen">>,
                       <<inner.listen_backlog_size>>)

\* listen raising is_listening before the OS listen call is made.
listen_flag_first(inner, osh, os_listen, target) ==
    IF inner.is_listening
    THEN OptionOutcome(Err(CustomError("Other")), inner, osh, <<>>, <<>>)
    ELSE IF os_listen = "Ok"
    THEN OptionOutcome(IoOk, [inner EXCEPT !.is_listening = TRUE],
                       [osh EXCEPT !.listening = TRUE, !.backlog = inner.listen_backlog_size],
                       <<"listen">>, <<inner.listen_backlog_size>>)
    ELSE IF target = "windows" /\ os_listen = "EMFILE"
    THEN OptionOutcome(Err(OsError("ENOBUFS")), [inner EXCEPT !.is_listening = TRUE], osh,
                       <<"listen">>, <<inner.listen_backlog_size>>)
    ELSE OptionOutcome(Err(OsError(os_listen)), [inner EXCEPT !.is_listening = TRUE], osh,
                       <<"listen">>, <<inner.listen_backlog_size>>)

\* SystemTcpSocket::listen; os_listen is the OS listen call's answer
listen(inner, osh, os_listen, target) ==
    IF inner.is_listening
    THEN OptionOutcome(Err(CustomError("Other")), inner, osh, <<>>, <<>>)
    ELSE IF os_listen = "Ok"
    THEN OptionOutcome(IoOk, [inner EXCEPT !.is_listening = TRUE],
                       [osh EXCEPT !.listening = TRUE, !.backlog = inner.listen_backlog_size],
                       <<"listen">>, <<inner.listen_backlog_size>>)
    ELSE IF target = "windows" /\ os_listen = "EMFILE"
    THEN OptionOutcome(Err(OsError("ENOBUFS")), inner, osh, <<"listen">>,
                       <<inner.listen_backlog_size>>)
    ELSE OptionOutcome(Err(OsError(os_listen)), inner, osh, <<"listen">>,
                       <<inner.listen_backlog_size>>)

\* const INPROGRESS in connect_non_boxing
INPROGRESS(target) == IF target = "windows" THEN "EWOULDBLOCK" ELSE "EINPROGRESS"

\* What the OS connect call answers at once, and the errors SO_ERROR reports
\* once the handle became writable.
ConnectAnswers == {"Ok", "EINPROGRESS", "EWOULDBLOCK", "ENETUNREACH"}
ConnectErrnos == {"ECONNREFUSED"}

\* The connect future never noticing that the handle became writable.
poll_connect_stuck(osh) == [future |-> Pending, os |-> osh, sys |-> <<>>]

\* The connect future reading SO_ERROR without awaiting writability: a
\* connect in progress has no error yet.
poll_connect_unawaited(osh) ==
    IF osh.conn \in {"inprogress", "established"}
    THEN [future |-> Ready(IoOk), os |-> osh, sys |-> <<"getsockopt">>]
    ELSE [future |-> Ready(Err(OsError(osh.conn))),
          os |-> [osh EXCEPT !.conn = "none"], sys |-> <<"getsockopt">>]

\* The tail of the connect future, from `stream.writable().await` on: it
\* stays pending while the OS has the connect in progress, then reads
\* SO_ERROR.
poll_connect(osh) ==
    IF osh.conn = "inprogress"
    THEN [future |-> Pending, os |-> osh, sys |-> <<>>]
    ELSE IF osh.conn = "established"
    THEN [future |-> Ready(IoOk), os |-> osh, sys |-> <<"getsockopt">>]
    ELSE [future |-> Ready(Err(OsError(osh.conn))),
          os |-> [osh EXCEPT !.conn = "none"], sys |-> <<"getsockopt">>]

\* connect awaiting writability after any error of the OS connect call,
\* to find the error in SO_ERROR later.
connect_deferred(inner, osh, remote_address, os_connect, target) ==
    IF validate_unicast(remote_address) # "Ok"
    THEN [future |-> Ready(Err(CustomError("InvalidInput"))), os |-> osh, sys |-> <<>>]
    ELSE IF validate_remote_address(remote_address) # "Ok"
    THEN [future |-> Ready(Err(CustomError("InvalidInput"))), os |-> osh, sys |-> <<>>]
    ELSE IF validate_address_family(remote_address, inner.family) # "Ok"
    THEN [future |-> Ready(Err(CustomError("InvalidInput"))), os |-> osh, sys |-> <<>>]
    ELSE IF os_connect = INPROGRESS(target)
    THEN [future |-> Pending, os |-> [osh EXCEPT !.conn = "inprogress"], sys |-> <<"connect">>]
    ELSE IF os_connect = "Ok"
    THEN [future |-> Ready(IoOk), os |-> [osh EXCEPT !.conn = "established"], sys |-> <<"connect">>]
    ELSE [future |-> Pending, os |-> [osh EXCEPT !.conn = os_connect], sys |-> <<"connect">>]

\* SystemTcpSocket::connect (connect_non_boxing), polled once: the state of
\* the future after Preview2Future::try_resolve.  os_connect is the OS
\* connect call's answer.
connect(inner, osh, remote_address, os_connect, target) ==
    IF validate_unicast(remote_address) # "Ok"
    THEN [future |-> Ready(Err(CustomError("InvalidInput"))), os |-> osh, sys |-> <<>>]
    ELSE IF validate_remote_address(remote_address) # "Ok"
    THEN [future |-> Ready(Err(CustomError("InvalidInput"))), os |-> osh, sys |-> <<>>]
    ELSE IF validate_address_family(remote_address, inner.family) # "Ok"
    THEN [future |-> Ready(Err(CustomError("InvalidInput"))), os |-> osh, sys |-> <<>>]
    ELSE IF os_connect = INPROGRESS(target)
    THEN [future |-> Pending, os |-> [osh EXCEPT !.conn = "inprogress"], sys |-> <<"connect">>]
    ELSE IF os_connect = "Ok"
    THEN [future |-> Ready(IoOk), os |-> [osh EXCEPT !.conn = "established"], sys |-> <<"connect">>]
    ELSE [future |-> Ready(Err(OsError(os_connect))),
          os |-> [osh EXCEPT !.conn = "none"], sys |-> <<"connect">>]

\* What the OS accept call answers besides a connection ("conn") and
\* EAGAIN: errors that leave the queue as it is.
AcceptErrnos == {"ECONNRESET", "EINPROGRESS"}

\* The error mapping inside try_accept
normalize_accept_error(errno, target) ==
    IF target = "windows" /\ errno = "EINPROGRESS" THEN "EINTR"
    ELSE IF target = "linux" /\
            errno \in {"ECONNRESET", "ENETRESET", "EHOSTUNREACH", "EHOSTDOWN", "ENETDOWN",
                       "ENETUNREACH", "EPROTO", "ENOPROTOOPT", "ENONET", "EOPNOTSUPP"}
    THEN "ECONNABORTED"
    ELSE errno

\* try_accept wrapping the listener's own handle as the client.
try_accept_same_handle(inner, osh, os_accept, fd, target) ==
    IF os_accept = "conn"
    THEN Outcome(OkClient(from_fd(inner.stream, inner.family)),
                 inner, [osh EXCEPT !.acceptq = @ - 1], <<"accept">>)
    ELSE LET e == OsError(normalize_accept_error(os_accept, target))
         IN  Outcome(Err(e), inner,
                     IF e.kind = "WouldBlock" THEN [osh EXCEPT !.readable = FALSE] ELSE osh,
                     <<"accept">>)

\* SystemTcpSocket::try_accept; os_accept is the OS accept call's answer and
\* fd the descriptor of the accepted connection.  try_io clears the
\* reactor's readiness when the attempt would block.
try_accept(inner, osh, os_accept, fd, target) ==
    IF os_accept = "conn"
    THEN Outcome(OkClient(from_fd(fd, inner.family)),
                 inner, [osh EXCEPT !.acceptq = @ - 1], <<"accept">>)
    ELSE LET e == OsError(normalize_accept_error(os_accept, target))
         IN  Outcome(Err(e), inner,
                     IF e.kind = "WouldBlock" THEN [osh EXCEPT !.readable = FALSE] ELSE osh,
                     <<"accept">>)

\* poll_accept handing out the error of an attempt that would block.
poll_accept_eager(inner, osh, os_accept, fd, target) ==
    IF ~osh.readable
    THEN [poll |-> Pending, os |-> osh, sys |-> <<>>]
    ELSE LET r == try_accept(inner, osh, os_accept, fd, target)
         IN  [poll |-> Ready(r.result), os |-> r.os, sys |-> r.sys]

\* SystemTcpSocket::poll_accept (poll_accept_no_box): Poll::Pending or
\* Poll::Ready(result).  A second turn of the loop finds the readiness
\* cleared by the first.
poll_accept(inner, osh, os_accept, fd, target) ==
    IF ~osh.readable
    THEN [poll |-> Pending, os |-> osh, sys |-> <<>>]
    ELSE LET r == try_accept(inner, osh, os_accept, fd, target)
         IN  IF r.result.tag = "Err" /\ r.result.err.kind = "WouldBlock"
             THEN [poll |-> Pending, os |-> r.os, sys |-> r.sys]
             ELSE [poll |-> Ready(r.result), os |-> r.os, sys |-> r.sys]

\* The while loop of poll_accept_no_box going on after an attempt that
\* would block as if the readiness were still reported.
accept_loop_unclearing(inner, osh, os_accept, fd, target) ==
    IF ~osh.readable
    THEN [poll |-> Pending, os |-> osh, sys |-> <<>>]
    ELSE LET r == try_accept(inner, osh, os_accept, fd, target)
         IN  IF r.result.tag = "Err" /\ r.result.err.kind = "WouldBlock"
             THEN [poll |-> [tag |-> "Continue"], os |-> osh, sys |-> r.sys]
             ELSE [poll |-> Ready(r.result), os |-> r.os, sys |-> r.sys]

\* One turn of the while loop of poll_accept_no_box: Poll::Pending when
\* poll_read_ready is not ready; otherwise an attempt, which ends the loop
\* with Poll::Ready unless it would block ("Continue": the loop goes on).
accept_loop(inner, osh, os_accept, fd, target) ==
    IF ~osh.readable
    THEN [poll |-> Pending, os |-> osh, sys |-> <<>>]
    ELSE LET r == try_accept(inner, osh, os_accept, fd, target)
         IN  IF r.result.tag = "Err" /\ r.result.err.kind = "WouldBlock"
             THEN [poll |-> [tag |-> "Continue"], os |-> r.os, sys |-> r.sys]
             ELSE [poll |-> Ready(r.result), os |-> r.os, sys |-> r.sys]

\* The answers the OS can give to an accept call on a handle: a connection
\* when one is queued and a descriptor is free, EAGAIN when none is queued.
AcceptAnswers(osh) ==
    IF osh.acceptq = 0 THEN {"EAGAIN"}
    ELSE AcceptErrnos \cup (IF FreeHandles = {} THEN {} ELSE {"conn"})

\* The values a guest passes to set_hop_limit (a u8), and the answers of
\* the OS to the setsockopt call.
HopLimits == {0, 1, 64}
SetsockoptAnswers == {"Ok", "ENOPROTOOPT"}

\* util::get_ip_ttl: the u32 of the OS as a u8
get_ip_ttl(osh) ==
    IF osh.ip_ttl > 255 THEN [errno |-> "EOPNOTSUPP", value |-> 0]
    ELSE [errno |-> "Ok", value |-> osh.ip_ttl]

\* util::get_ipv6_unicast_hops
get_ipv6_unicast_hops(osh) == [errno |-> "Ok", value |-> osh.ipv6_unicast_hops]

\* set_ip_ttl handing 0 to the OS.
set_ip_ttl_unchecked(osh, value, os_set) ==
    IF os_set = "Ok" THEN [errno |-> "Ok", os |-> [osh EXCEPT !.ip_ttl = value], sys |-> <<"setsockopt">>]
    ELSE [errno |-> os_set, os |-> osh, sys |-> <<"setsockopt">>]

\* util::set_ip_ttl; os_set is the OS setsockopt call's answer
set_ip_ttl(osh, value, os_set) ==
    IF value = 0 THEN [errno |-> "EINVAL", os |-> osh, sys |-> <<>>]
    ELSE IF os_set = "Ok"
    THEN [errno |-> "Ok", os |-> [osh EXCEPT !.ip_ttl = value], sys |-> <<"setsockopt">>]
    ELSE [errno |-> os_set, os |-> osh, sys |-> <<"setsockopt">>]

\* util::set_ipv6_unicast_hops
set_ipv6_unicast_hops(osh, value, os_set) ==
    IF value = 0 THEN [errno |-> "EINVAL", os |-> osh, sys |-> <<>>]
    ELSE IF os_set = "Ok"
    THEN [errno |-> "Ok", os |-> [osh EXCEPT !.ipv6_unicast_hops = value],
          sys |-> <<"setsockopt">>]
    ELSE [errno |-> os_set, os |-> osh, sys |-> <<"setsockopt">>]

\* SystemTcpSocket::hop_limit: the io::Result and the value read
inner_hop_limit(inner, osh) ==
    LET r == IF inner.family = "V4" THEN get_ip_ttl(osh) ELSE get_ipv6_unicast_hops(osh)
    IN  [result |-> IF r.errno = "Ok" THEN IoOk ELSE Err(OsError(r.errno)),
         value |-> r.value, sys |-> <<"getsockopt">>]

\* SystemTcpSocket::set_hop_limit
inner_set_hop_limit(inner, osh, value, os_set, target) ==
    LET r == IF inner.family = "V4" THEN set_ip_ttl(osh, value, os_set)
             ELSE set_ipv6_unicast_hops(osh, value, os_set)
    IN  IF r.errno # "Ok"
        THEN Outcome(Err(OsError(r.errno)), inner, r.os, r.sys)
        ELSE Outcome(IoOk,
                     IF target = "macos" THEN [inner EXCEPT !.hop_limit = Some(value)]
                     ELSE inner,
                     r.os, r.sys)

(* Numbers wider than the checker's integers.  A u64, a usize or a u32 is
   written in base 10^9, least significant digit first: <<lo, mid, hi>>
   stands for lo + mid * 10^9 + hi * 10^18.  A std::time::Duration is its
   whole seconds, in the same base as <<lo, hi>>, and its nanoseconds below
   one second. *)
ToU64(n) == <<n % 1000000000, n \div 1000000000, 0>>
U64Less(a, b) ==
    \/ a[3] < b[3]
    \/ a[3] = b[3] /\ a[2] < b[2]
    \/ a[3] = b[3] /\ a[2] = b[2] /\ a[1] < b[1]

\* u64::MAX, u32::MAX and i32::MAX
U64_MAX == <<709551615, 446744073, 18>>
U32_MAX == <<294967295, 4, 0>>
I32_MAX == 2147483647

\* Ord::clamp on u64, usize and u32
clamp(value, min, max) ==
    IF U64Less(value, min) THEN min ELSE IF U64Less(max, value) THEN max ELSE value

\* i32::try_from(usize): the number when it fits
try_into_i32(value) ==
    IF U64Less(ToU64(I32_MAX), value) THEN None
    ELSE Some(value[2] * 1000000000 + value[1])

\* Duration::from_nanos, Duration::from_secs, Duration::ZERO and the order
\* of Durations
from_nanos(nanos) == [secs |-> <<nanos[2], nanos[3]>>, nanos |-> nanos[1]]
from_secs(secs) == [secs |-> <<secs, 0>>, nanos |-> 0]
DurationLess(a, b) ==
    \/ a.secs[2] < b.secs[2]
    \/ a.secs[2] = b.secs[2] /\ a.secs[1] < b.secs[1]
    \/ a.secs = b.secs /\ a.nanos < b.nanos

\* Ord::clamp on Duration
clamp_duration(value, min, max) ==
    IF DurationLess(value, min) THEN min ELSE IF DurationLess(max, value) THEN max ELSE value

\* What a util function or associated function that sets an option of a
\* descriptor comes to: its errno or "Ok", the handle's OS state, the system
\* calls issued and what was handed to the OS.
Setsockopt(errno, osh, sys, sent) == [errno |-> errno, os |-> osh, sys |-> sys, sent |-> sent]

\* set_keepidle handing the clamped zero to the OS.
set_keepidle_unchecked(osh, value, os_set) ==
    LET d == clamp_duration(value, from_secs(1), from_secs(32767))
        sent == <<d.secs[1], d.nanos>>
    IN  IF os_set = "Ok"
        THEN Setsockopt("Ok", [osh EXCEPT !.tcp_keepidle = sent], <<"setsockopt">>, sent)
        ELSE Setsockopt(os_set, osh, <<"setsockopt">>, sent)

\* SystemTcpSocket::set_keepidle; os_set is the OS setsockopt call's answer
set_keepidle(osh, value, os_set) ==
    IF ~DurationLess(from_secs(0), value)
    THEN Setsockopt("EINVAL", osh, <<>>, <<>>)
    ELSE LET d == clamp_duration(value, from_secs(1), from_secs(32767))
             sent == <<d.secs[1], d.nanos>>
         IN  IF os_set = "Ok"
             THEN Setsockopt("Ok", [osh EXCEPT !.tcp_keepidle = sent], <<"setsockopt">>, sent)
             ELSE Setsockopt(os_set, osh, <<"setsockopt">>, sent)

\* SystemTcpSocket::set_keep_alive_idle_time
inner_set_keep_alive_idle_time(inner, osh, value, os_set, target) ==
    LET r == set_keepidle(osh, value, os_set)
    IN  IF r.errno # "Ok"
        THEN OptionOutcome(Err(OsError(r.errno)), inner, r.os, r.sys, r.sent)
        ELSE OptionOutcome(IoOk,
                           IF target = "macos"
                           THEN [inner EXCEPT !.keep_alive_idle_time = Some(value)]
                           ELSE inner,
                           r.os, r.sys, r.sent)

\* set_keep_alive_interval handing the Duration to the OS as it came.
inner_set_keep_alive_interval_unclamped(inner, osh, value, os_set) ==
    IF ~DurationLess(from_secs(0), value)
    THEN OptionOutcome(Err(OsError("EINVAL")), inner, osh, <<>>, <<>>)
    ELSE LET sent == <<IF value.secs[2] > 0 THEN I32_MAX ELSE value.secs[1], value.nanos>>
         IN  IF os_set = "Ok"
             THEN OptionOutcome(IoOk, inner, [osh EXCEPT !.tcp_keepintvl = sent],
                                <<"setsockopt">>, sent)
             ELSE OptionOutcome(Err(OsError(os_set)), inner, osh, <<"setsockopt">>, sent)

\* SystemTcpSocket::set_keep_alive_interval
inner_set_keep_alive_interval(inner, osh, value, os_set) ==
    IF ~DurationLess(from_secs(0), value)
    THEN OptionOutcome(Err(OsError("EINVAL")), inner, osh, <<>>, <<>>)
    ELSE LET d == clamp_duration(value, from_secs(1), from_secs(32767))
             sent == <<d.secs[1], d.nanos>>
         IN  IF os_set = "Ok"
             THEN OptionOutcome(IoOk, inner, [osh EXCEPT !.tcp_keepintvl = sent],
                                <<"setsockopt">>, sent)
             ELSE OptionOutcome(Err(OsError(os_set)), inner, osh, <<"setsockopt">>, sent)

\* SystemTcpSocket::set_keep_alive_count; value is a u32
inner_set_keep_alive_count(inner, osh, value, os_set) ==
    IF value = ToU64(0)
    THEN OptionOutcome(Err(OsError("EINVAL")), inner, osh, <<>>, <<>>)
    ELSE LET sent == <<clamp(value, ToU64(1), ToU64(127))[1]>>
         IN  IF os_set = "Ok"
             THEN OptionOutcome(IoOk, inner, [osh EXCEPT !.tcp_keepcnt = sent[1]],
                                <<"setsockopt">>, sent)
             ELSE OptionOutcome(Err(OsError(os_set)), inner, osh, <<"setsockopt">>, sent)

\* util::normalize_set_buffer_size
normalize_set_buffer_size(value) == clamp(value, ToU64(1), ToU64(I32_MAX))

\* util::set_socket_recv_buffer_size
set_socket_recv_buffer_size(osh, value, os_set) ==
    IF value = ToU64(0)
    THEN Setsockopt("EINVAL", osh, <<>>, <<>>)
    ELSE LET sent == <<try_into_i32(normalize_set_buffer_size(value)).result>>
         IN  IF os_set = "Ok"
             THEN Setsockopt("Ok", [osh EXCEPT !.so_rcvbuf = sent[1]], <<"setsockopt">>, sent)
             ELSE IF os_set = "ENOBUFS"
             THEN Setsockopt("Ok", osh, <<"setsockopt">>, sent)
             ELSE Setsockopt(os_set, osh, <<"setsockopt">>, sent)

\* set_socket_send_buffer_size returning the error of a size the OS has no
\* room for.
set_socket_send_buffer_size_strict(osh, value, os_set) ==
    IF value = ToU64(0)
    THEN Setsockopt("EINVAL", osh, <<>>, <<>>)
    ELSE LET sent == <<try_into_i32(normalize_set_buffer_size(value)).result>>
         IN  IF os_set = "Ok"
             THEN Setsockopt("Ok", [osh EXCEPT !.so_sndbuf = sent[1]], <<"setsockopt">>, sent)
             ELSE Setsockopt(os_set, osh, <<"setsockopt">>, sent)

\* util::set_socket_send_buffer_size
set_socket_send_buffer_size(osh, value, os_set) ==
    IF value = ToU64(0)
    THEN Setsockopt("EINVAL", osh, <<>>, <<>>)
    ELSE LET sent == <<try_into_i32(normalize_set_buffer_size(value)).result>>
         IN  IF os_set = "Ok"
             THEN Setsockopt("Ok", [osh EXCEPT !.so_sndbuf = sent[1]], <<"setsockopt">>, sent)
             ELSE IF os_set = "ENOBUFS"
             THEN Setsockopt("Ok", osh, <<"setsockopt">>, sent)
             ELSE Setsockopt(os_set, osh, <<"setsockopt">>, sent)

\* SystemTcpSocket::set_receive_buffer_size
inner_set_receive_buffer_size(inner, osh, value, os_set, target) ==
    LET r == set_socket_recv_buffer_size(osh, value, os_set)
    IN  IF r.errno # "Ok"
        THEN OptionOutcome(Err(OsError(r.errno)), inner, r.os, r.sys, r.sent)
        ELSE OptionOutcome(IoOk,
                           IF target = "macos"
                           THEN [inner EXCEPT !.receive_buffer_size = Some(value)]
                           ELSE inner,
                           r.os, r.sys, r.sent)

\* SystemTcpSocket::set_send_buffer_size
inner_set_send_buffer_size(inner, osh, value, os_set, target) ==
    LET r == set_socket_send_buffer_size(osh, value, os_set)
    IN  IF r.errno # "Ok"
        THEN OptionOutcome(Err(OsError(r.errno)), inner, r.os, r.sys, r.sent)
        ELSE OptionOutcome(IoOk,
                           IF target = "macos"
                           THEN [inner EXCEPT !.send_buffer_size = Some(value)]
                           ELSE inner,
                           r.os, r.sys, r.sent)

\* set_listen_backlog_size storing the value before it asks the OS.
inner_set_listen_backlog_size_store_first(inner, osh, value, os_listen) ==
    IF value = ToU64(0)
    THEN OptionOutcome(Err(OsError("EINVAL")), inner, osh, <<>>, <<>>)
    ELSE LET fit == try_into_i32(value)
             v == IF fit.tag = "Some" THEN fit.result ELSE I32_MAX
             stored == [inner EXCEPT !.listen_backlog_size = v]
         IN  IF ~inner.is_listening
             THEN OptionOutcome(IoOk, stored, osh, <<>>, <<>>)
             ELSE IF os_listen = "Ok"
             THEN OptionOutcome(IoOk, stored, [osh EXCEPT !.backlog = v], <<"listen">>, <<v>>)
             ELSE OptionOutcome(Err(OsError("EOPNOTSUPP")), stored, osh, <<"listen">>, <<v>>)

\* set_listen_backlog_size returning the error of the OS as it is.
inner_set_listen_backlog_size_os_error(inner, osh, value, os_listen) ==
    IF value = ToU64(0)
    THEN OptionOutcome(Err(OsError("EINVAL")), inner, osh, <<>>, <<>>)
    ELSE LET fit == try_into_i32(value)
             v == IF fit.tag = "Some" THEN fit.result ELSE I32_MAX
             stored == [inner EXCEPT !.listen_backlog_size = v]
         IN  IF ~inner.is_listening
             THEN OptionOutcome(IoOk, stored, osh, <<>>, <<>>)
             ELSE IF os_listen = "Ok"
             THEN OptionOutcome(IoOk, stored, [osh EXCEPT !.backlog = v], <<"listen">>, <<v>>)
             ELSE OptionOutcome(Err(OsError(os_listen)), inner, osh, <<"listen">>, <<v>>)

\* SystemTcpSocket::set_listen_backlog_size; os_listen is the answer of the
\* OS to the listen call that changes the backlog of a listening handle.
\* A usize that is no i32 becomes i32::MAX; the clamp to [1, i32::MAX] then
\* finds nothing to do unless the number is below 1.
inner_set_listen_backlog_size(inner, osh, value, os_listen) ==
    IF value = ToU64(0)
    THEN OptionOutcome(Err(OsError("EINVAL")), inner, osh, <<>>, <<>>)
    ELSE LET fit == try_into_i32(value)
             i == IF fit.tag = "Some" THEN fit.result ELSE I32_MAX
             v == IF i < 1 THEN 1 ELSE IF i > I32_MAX THEN I32_MAX ELSE i
             stored == [inner EXCEPT !.listen_backlog_size = v]
         IN  IF ~inner.is_listening
             THEN OptionOutcome(IoOk, stored, osh, <<>>, <<>>)
             ELSE IF os_listen = "Ok"
             THEN OptionOutcome(IoOk, stored, [osh EXCEPT !.backlog = v], <<"listen">>, <<v>>)
             ELSE OptionOutcome(Err(OsError("EOPNOTSUPP")), inner, osh, <<"listen">>, <<v>>)

\* What the OS gives the handle of an accepted connection, and what
\* try_accept adds on macOS.  IP_TTL, TCP_KEEPINTVL and TCP_KEEPCNT come
\* from the listener; so do IPV6_UNICAST_HOPS, SO_RCVBUF, SO_SNDBUF and
\* TCP_KEEPIDLE except on macOS, where try_accept sets each on the client
\* from the value recorded for the listener, if any, ignoring the result
\* (the OS is taken to accept the call).
AcceptedHandle(inner, osh, target) ==
    LET inherited == [FreshHandle("established") EXCEPT
                         !.ip_ttl = osh.ip_ttl,
                         !.tcp_keepintvl = osh.tcp_keepintvl,
                         !.tcp_keepcnt = osh.tcp_keepcnt]
        h1 == IF inner.receive_buffer_size.tag = "Some"
              THEN set_socket_recv_buffer_size(inherited, inner.receive_buffer_size.result,
                                               "Ok").os
              ELSE inherited
        h2 == IF inner.send_buffer_size.tag = "Some"
              THEN set_socket_send_buffer_size(h1, inner.send_buffer_size.result, "Ok").os
              ELSE h1
        h3 == IF inner.family = "V6" /\ inner.hop_limit.tag = "Some"
              THEN set_ipv6_unicast_hops(h2, inner.hop_limit.result, "Ok").os
              ELSE h2
        h4 == IF inner.keep_alive_idle_time.tag = "Some"
              THEN set_keepidle(h3, inner.keep_alive_idle_time.result, "Ok").os
              ELSE h3
    IN  IF target = "macos" THEN h4
        ELSE [inherited EXCEPT !.ipv6_unicast_hops = osh.ipv6_unicast_hops,
                               !.so_rcvbuf = osh.so_rcvbuf,
                               !.so_sndbuf = osh.so_sndbuf,
                               !.tcp_keepidle = osh.tcp_keepidle]

\* SystemTcpSocket::local_address and remote_address: getsockname and
\* getpeername on the handle; os_answer is the OS call's answer.  The
\* address itself is not part of the model.
inner_local_address(inner, osh, os_answer) ==
    IF os_answer = "Ok" THEN Outcome(IoOk, inner, osh, <<"getsockname">>)
    ELSE Outcome(Err(OsError(os_answer)), inner, osh, <<"getsockname">>)

inner_remote_address(inner, osh, os_answer) ==
    IF os_answer = "Ok" THEN Outcome(IoOk, inner, osh, <<"getpeername">>)
    ELSE Outcome(Err(OsError(os_answer)), inner, osh, <<"getpeername">>)

\* std::net::Shutdown applied to what is already shut down
shut_after(shut, how) ==
    IF shut = "none" \/ shut = how THEN how ELSE "both"

\* SystemTcpSocket::shutdown; os_shutdown is the OS shutdown call's answer
inner_shutdown(inner, osh, how, os_shutdown) ==
    IF os_shutdown = "Ok"
    THEN Outcome(IoOk, inner, [osh EXCEPT !.shut = shut_after(@, how)], <<"shutdown">>)
    ELSE Outcome(Err(OsError(os_shutdown)), inner, osh, <<"shutdown">>)

(* --------------- HostTcpSocket (crates/wasi/src/host/tcp.rs) ----------- *)

\* The network capability's verdict on a call: allowed_network_uses
\* .check_allowed_tcp() and Network::check_socket_addr(addr, use).
Verdicts == {"Allow", "DenyTcp", "DenyAddr"}

check_allowed_tcp(verdict) == IF verdict = "DenyTcp" THEN "AccessDenied" ELSE "Ok"
check_socket_addr(verdict) == IF verdict = "DenyAddr" THEN "AccessDenied" ELSE "Ok"

\* The result code the guest sees for an io::Result (`?` and `e.into()`)
Code(result) == IF result.tag = "Ok" THEN "Ok" ELSE IoErrorToErrorCode(result.err, target_os)

\* An io::Error converted into the error code the guest sees, apart from
\* any call: `e.into()`.
error_code_from(value) ==
    /\ last' = [Idle EXCEPT !.op = "ErrorCode::from", !.err = value,
                            !.res = IoErrorToErrorCode(value, target_os)]
    /\ UNCHANGED <<target_os, table, os, streams>>

\* The address passed the validations of bind, respectively connect: only
\* then is the OS asked.
BindValidated(addr, family) ==
    validate_unicast(addr) = "Ok" /\ validate_address_family(addr, family) = "Ok"

ConnectValidated(addr, family) ==
    BindValidated(addr, family) /\ validate_remote_address(addr) = "Ok"

\* A call that returns before it changed anything leaves only its record.
Reject(op, this, verdict, res) ==
    /\ last' = Call(op, this, verdict, NoAddr, res, <<>>, 0)
    /\ UNCHANGED <<target_os, table, os, streams>>

\* A trap ends the guest: a failed resource-table call is not a result the
\* guest sees, and the guest makes no call after it.
Trapped == last.res = "Trap"

\* The match on tcp_state each operation opens with: "Ok" when the state
\* lets the operation go on, or the error code it returns at once.
\* start_bind going on from Bound as well.
start_bind_state_rebind(tcp_state) ==
    CASE tcp_state.tag \in {"Default", "Bound"} -> "Ok"
      [] tcp_state.tag = "BindStarted" -> "ConcurrencyConflict"
      [] OTHER -> "InvalidState"

start_bind_state(tcp_state) ==
    CASE tcp_state.tag = "Default" -> "Ok"
      [] tcp_state.tag = "BindStarted" -> "ConcurrencyConflict"
      [] OTHER -> "InvalidState"

\* finish_bind going on from Default as well.
finish_bind_state_unstarted(tcp_state) ==
    IF tcp_state.tag \in {"Default", "BindStarted"} THEN "Ok" ELSE "NotInProgress"

finish_bind_state(tcp_state) ==
    IF tcp_state.tag = "BindStarted" THEN "Ok" ELSE "NotInProgress"

\* start_connect with its two error codes exchanged.
start_connect_state_swapped(tcp_state) ==
    CASE tcp_state.tag = "Default" -> "Ok"
      [] tcp_state.tag = "Connecting" -> "InvalidState"
      [] OTHER -> "ConcurrencyConflict"

\* start_connect going on while a bind is in progress.
start_connect_state_bind_started(tcp_state) ==
    CASE tcp_state.tag \in {"Default", "BindStarted"} -> "Ok"
      [] tcp_state.tag = "Connecting" -> "ConcurrencyConflict"
      [] OTHER -> "InvalidState"

\* start_connect going on from Bound as well.
start_connect_state_bound(tcp_state) ==
    CASE tcp_state.tag \in {"Default", "Bound"} -> "Ok"
      [] tcp_state.tag = "Connecting" -> "ConcurrencyConflict"
      [] OTHER -> "InvalidState"

start_connect_state(tcp_state) ==
    CASE tcp_state.tag = "Default" -> "Ok"
      [] tcp_state.tag = "Connecting" -> "ConcurrencyConflict"
      [] OTHER -> "InvalidState"

\* finish_connect answering InvalidState where no connect is in progress.
finish_connect_state_invalid(tcp_state) ==
    IF tcp_state.tag = "Connecting" THEN "Ok" ELSE "InvalidState"

finish_connect_state(tcp_state) ==
    IF tcp_state.tag = "Connecting" THEN "Ok" ELSE "NotInProgress"

\* start_listen answering ConcurrencyConflict in BindStarted and Connecting
\* only.
start_listen_state_two(tcp_state) ==
    CASE tcp_state.tag = "Bound" -> "Ok"
      [] tcp_state.tag \in {"Connecting", "BindStarted"} -> "ConcurrencyConflict"
      [] OTHER -> "InvalidState"

\* start_listen going on from Default as well.
start_listen_state_unbound(tcp_state) ==
    CASE tcp_state.tag \in {"Bound", "Default"} -> "Ok"
      [] tcp_state.tag \in {"Connected", "Listening"} -> "InvalidState"
      [] tcp_state.tag \in {"ListenStarted", "Connecting", "BindStarted"} ->
            "ConcurrencyConflict"

start_listen_state(tcp_state) ==
    CASE tcp_state.tag = "Bound" -> "Ok"
      [] tcp_state.tag \in {"Default", "Connected", "Listening"} -> "InvalidState"
      [] tcp_state.tag \in {"ListenStarted", "Connecting", "BindStarted"} ->
            "ConcurrencyConflict"

\* finish_listen going on from Listening as well.
finish_listen_state_again(tcp_state) ==
    IF tcp_state.tag \in {"ListenStarted", "Listening"} THEN "Ok" ELSE "NotInProgress"

finish_listen_state(tcp_state) ==
    IF tcp_state.tag = "ListenStarted" THEN "Ok" ELSE "NotInProgress"

\* accept answering WouldBlock where the socket does not listen.
accept_state_retry(tcp_state) ==
    IF tcp_state.tag = "Listening" THEN "Ok" ELSE "WouldBlock"

accept_state(tcp_state) ==
    IF tcp_state.tag = "Listening" THEN "Ok" ELSE "InvalidState"

\* shutdown going on while the connect is in progress.
shutdown_state_early(tcp_state) ==
    CASE tcp_state.tag \in {"Connected", "Connecting"} -> "Ok"
      [] OTHER -> "InvalidState"

shutdown_state(tcp_state) ==
    CASE tcp_state.tag = "Connected" -> "Ok"
      [] tcp_state.tag = "Connecting" -> "ConcurrencyConflict"
      [] OTHER -> "InvalidState"

\* is_listening answering true from the OS listen call on.
is_listening_state_started(tcp_state) ==
    tcp_state.tag \in {"ListenStarted", "Listening"}

\* The match on tcp_state in is_listening: the boolean it returns.
is_listening_state(tcp_state) ==
    IF tcp_state.tag = "Listening" THEN TRUE ELSE FALSE

local_address_state(tcp_state) ==
    CASE tcp_state.tag = "Default" -> "InvalidState"
      [] tcp_state.tag = "BindStarted" -> "ConcurrencyConflict"
      [] OTHER -> "Ok"

\* remote_address going on while the connect is in progress.
remote_address_state_connecting(tcp_state) ==
    CASE tcp_state.tag \in {"Connected", "Connecting"} -> "Ok"
      [] OTHER -> "InvalidState"

remote_address_state(tcp_state) ==
    CASE tcp_state.tag = "Connected" -> "Ok"
      [] tcp_state.tag = "Connecting" -> "ConcurrencyConflict"
      [] OTHER -> "InvalidState"

\* What start_bind and start_connect do before they reach the backend:
\* check_allowed_tcp, then check_socket_addr, then the match on tcp_state.
\* "Ok", or the error of the first check that fails.
\* start_bind not asking check_socket_addr.
start_bind_checks_unasked(verdict, tcp_state) ==
    IF check_allowed_tcp(verdict) # "Ok" THEN check_allowed_tcp(verdict)
    ELSE start_bind_state(tcp_state)

start_bind_checks(verdict, tcp_state) ==
    IF check_allowed_tcp(verdict) # "Ok" THEN check_allowed_tcp(verdict)
    ELSE IF check_socket_addr(verdict) # "Ok" THEN check_socket_addr(verdict)
    ELSE start_bind_state(tcp_state)

start_connect_checks(verdict, tcp_state) ==
    IF check_allowed_tcp(verdict) # "Ok" THEN check_allowed_tcp(verdict)
    ELSE IF check_socket_addr(verdict) # "Ok" THEN check_socket_addr(verdict)
    ELSE start_connect_state(tcp_state)

\* The accepted client left in the state of a new socket.
accepted_socket_default(client) ==
    [inner |-> client, tcp_state |-> Default]

\* The TcpSocketResource accept makes of the accepted client.
accepted_socket(client) ==
    [inner |-> client, tcp_state |-> Connected]

\* SystemTcpSocket::new and create_tcp_socket; os_socket is the OS socket
\* call's answer.
create_tcp_socket(address_family, os_socket) ==
    /\ ~Trapped
    /\ IF os_socket # "Ok" \/ FreeHandles = {}
       THEN Reject("create_tcp_socket", 0, "Allow",
                   ErrnoToErrorCode(IF os_socket # "Ok" THEN os_socket ELSE "EMFILE", target_os))
       ELSE IF FreeSlots = {}
       THEN Reject("create_tcp_socket", 0, "Allow", "Trap")
       ELSE LET fd == Lowest(FreeHandles)
                socket == Lowest(FreeSlots)
                wrapper == [inner |-> from_fd(fd, address_family), tcp_state |-> Default]
            IN  /\ table' = (socket :> wrapper) @@ table
                /\ os' = [os EXCEPT ![fd] = FreshHandle("none")]
                /\ last' = Plain("create_tcp_socket", socket, "Ok",
                                 IF address_family = "V6" THEN <<"socket", "setsockopt">>
                                 ELSE <<"socket">>)
                /\ UNCHANGED <<target_os, streams>>

\* The arguments are the socket, the network capability's verdict, the
\* local address and the answers of the OS to the setsockopt and the bind
\* call; the last three are read only once the capability and the state
\* checks have passed, and an answer only when its call is made.
start_bind(this, verdict) ==
    /\ ~Trapped
    /\ LET socket == table[this]
           fd == socket.inner.stream
       IN  IF start_bind_checks(verdict, socket.tcp_state) # "Ok"
           THEN Reject("start_bind", this, verdict, start_bind_checks(verdict, socket.tcp_state))
           ELSE \E local_address \in SocketAddrs, os_set \in {"Ok"} \cup ReuseaddrErrnos,
                   os_bind \in {"Ok"} \cup BindErrnos :
                /\ os_set # "Ok" =>
                      BindValidated(local_address, socket.inner.family) /\ target_os # "windows"
                /\ os_bind # "Ok" =>
                      BindValidated(local_address, socket.inner.family) /\ os_set = "Ok"
                /\ LET r == bind(socket.inner, os[fd], local_address, os_set, os_bind, target_os)
                   IN  /\ os' = [os EXCEPT ![fd] = r.os]
                       /\ table' = [table EXCEPT ![this] =
                              [inner |-> r.inner,
                               tcp_state |-> IF r.result.tag = "Ok" THEN BindStarted
                                             ELSE socket.tcp_state]]
                       /\ last' = Call("start_bind", this, verdict, local_address,
                                       Code(r.result), r.sys, 0)
                       /\ UNCHANGED <<target_os, streams>>

finish_bind(this) ==
    /\ ~Trapped
    /\ IF finish_bind_state(table[this].tcp_state) # "Ok"
       THEN Reject("finish_bind", this, "Allow", finish_bind_state(table[this].tcp_state))
       ELSE /\ table' = [table EXCEPT ![this].tcp_state = Bound]
            /\ last' = Plain("finish_bind", this, "Ok", <<>>)
            /\ UNCHANGED <<target_os, os, streams>>

\* As start_bind; the remote address and the OS connect call's answer are
\* read once the checks have passed.
start_connect(this, verdict) ==
    /\ ~Trapped
    /\ LET socket == table[this]
           fd == socket.inner.stream
       IN  IF start_connect_checks(verdict, socket.tcp_state) # "Ok"
           THEN Reject("start_connect", this, verdict,
                       start_connect_checks(verdict, socket.tcp_state))
           ELSE \E remote_address \in SocketAddrs, os_connect \in ConnectAnswers :
                /\ os_connect # "Ok" => ConnectValidated(remote_address, socket.inner.family)
                /\ LET r == connect(socket.inner, os[fd], remote_address, os_connect, target_os)
                       failed == r.future.tag = "Ready" /\ r.future.result.tag = "Err"
                   IN  /\ os' = [os EXCEPT ![fd] = r.os]
                       /\ table' = IF failed THEN table
                                   ELSE [table EXCEPT ![this].tcp_state = Connecting(r.future)]
                       /\ streams' = IF r.future = Ready(IoOk)
                                     THEN [streams EXCEPT ![fd] = HeldStreams]
                                     ELSE streams
                       /\ last' = [Call("start_connect", this, verdict, remote_address,
                                        IF failed THEN Code(r.future.result) ELSE "Ok", r.sys, 0)
                                      EXCEPT !.answer = IF r.sys = <<>> THEN "Ok" ELSE os_connect]
                       /\ UNCHANGED target_os

\* room is the number of entries the resource table still takes: each
\* push_child that finds none traps.
finish_connect(this) ==
    /\ ~Trapped
    /\ LET socket == table[this]
           fd == socket.inner.stream
       IN  IF finish_connect_state(socket.tcp_state) # "Ok"
           THEN Reject("finish_connect", this, "Allow", finish_connect_state(socket.tcp_state))
           ELSE LET future == socket.tcp_state.future
                    r == IF future.tag = "Pending" THEN poll_connect(os[fd])
                         ELSE [future |-> future, os |-> os[fd], sys |-> <<>>]
                IN  IF r.future.tag = "Pending"
                    THEN Reject("finish_connect", this, "Allow", "WouldBlock")
                    ELSE IF r.future.result.tag = "Ok"
                    THEN \E room \in 0..2 :
                         /\ table' = [table EXCEPT ![this].tcp_state = Connected]
                         /\ streams' = [streams EXCEPT ![fd] =
                                [reader |-> IF room >= 1 THEN "live" ELSE "none",
                                 writer |-> IF room >= 2 THEN "live" ELSE "none"]]
                         /\ os' = [os EXCEPT ![fd] = r.os]
                         /\ last' = Plain("finish_connect", this,
                                          IF room >= 2 THEN "Ok" ELSE "Trap", r.sys)
                         /\ UNCHANGED target_os
                    ELSE /\ table' = [table EXCEPT ![this].tcp_state = Default]
                         /\ streams' = [streams EXCEPT ![fd] = NoStreams]
                         /\ os' = [os EXCEPT ![fd] = r.os]
                         /\ last' = Plain("finish_connect", this, Code(r.future.result), r.sys)
                         /\ UNCHANGED target_os

start_listen(this) ==
    /\ ~Trapped
    /\ LET socket == table[this]
           fd == socket.inner.stream
       IN  IF start_listen_state(socket.tcp_state) # "Ok"
           THEN Reject("start_listen", this, "Allow", start_listen_state(socket.tcp_state))
           ELSE \E os_listen \in {"Ok"} \cup ListenErrnos :
                LET r == listen(socket.inner, os[fd], os_listen, target_os)
                IN  /\ os' = [os EXCEPT ![fd] = r.os]
                    /\ table' = [table EXCEPT ![this] =
                           [inner |-> r.inner,
                            tcp_state |-> IF r.result.tag = "Ok" THEN ListenStarted
                                          ELSE socket.tcp_state]]
                    /\ last' = SetterCall("start_listen", this, ToU64(0), Code(r.result),
                                           r.sys, r.sent)
                    /\ UNCHANGED <<target_os, streams>>

finish_listen(this) ==
    /\ ~Trapped
    /\ IF finish_listen_state(table[this].tcp_state) # "Ok"
       THEN Reject("finish_listen", this, "Allow", finish_listen_state(table[this].tcp_state))
       ELSE /\ table' = [table EXCEPT ![this].tcp_state = Listening(None)]
            /\ last' = Plain("finish_listen", this, "Ok", <<>>)
            /\ UNCHANGED <<target_os, os, streams>>

\* The accepted client becomes a socket resource of its own, with its
\* reader and writer as stream resources: three entries of the resource
\* table, of which `room` are to be had.
AcceptedInto(tbl, this, client, room, sys, osf) ==
    LET fd == client.stream
        slot == Lowest(FreeSlots)
        tbl1 == IF room >= 1 THEN (slot :> accepted_socket(client)) @@ tbl ELSE tbl
        st1 == [streams EXCEPT ![fd] =
                   [reader |-> IF room >= 2 THEN "live" ELSE "none",
                    writer |-> IF room >= 3 THEN "live" ELSE "none"]]
    IN  /\ table' = tbl1
        /\ streams' = st1
        /\ os' = Release(osf, tbl1, st1)
        /\ last' = Call("accept", this, "Allow", NoAddr,
                        IF room >= 3 THEN "Ok" ELSE "Trap", sys,
                        IF room >= 3 THEN slot ELSE 0)
        /\ UNCHANGED target_os

\* accept reading the pending result and leaving it where it is.
accept_peek(this) ==
    /\ ~Trapped
    /\ LET socket == table[this]
           fd == socket.inner.stream
       IN  IF accept_state(socket.tcp_state) # "Ok"
           THEN Reject("accept", this, "Allow", accept_state(socket.tcp_state))
           ELSE LET taken == socket.tcp_state.pending_result
                    emptied == table
                    client_fd == IF FreeHandles = {} THEN 0 ELSE Lowest(FreeHandles)
                IN  IF taken.tag = "Some"
                    THEN IF taken.result.tag = "Err"
                         THEN /\ table' = emptied
                              /\ last' = Plain("accept", this, Code(taken.result), <<>>)
                              /\ UNCHANGED <<target_os, os, streams>>
                         ELSE \E room \in 0..3 :
                              /\ room >= 1 => FreeSlots # {}
                              /\ AcceptedInto(emptied, this, taken.result.client, room, <<>>, os)
                    ELSE \E os_accept \in AcceptAnswers(os[fd]) :
                         LET r == poll_accept(socket.inner, os[fd], os_accept, client_fd, target_os)
                         IN  IF r.poll.tag = "Pending"
                             THEN /\ os' = [os EXCEPT ![fd] = r.os]
                                  /\ last' = Plain("accept", this, "WouldBlock", r.sys)
                                  /\ UNCHANGED <<target_os, table, streams>>
                             ELSE IF r.poll.result.tag = "Err"
                             THEN /\ os' = [os EXCEPT ![fd] = r.os]
                                  /\ last' = Plain("accept", this, Code(r.poll.result), r.sys)
                                  /\ UNCHANGED <<target_os, table, streams>>
                             ELSE \E room \in 0..3 :
                                  /\ room >= 1 => FreeSlots # {}
                                  /\ AcceptedInto(emptied, this, r.poll.result.client, room, r.sys,
                                         [os EXCEPT ![fd] = r.os,
                                                    ![client_fd] =
                                                        AcceptedHandle(socket.inner, os[fd],
                                                                       target_os)])

\* pending_result.take() leaves None in the Listening state whatever it
\* held; the listener is polled only when it held nothing.
accept(this) ==
    /\ ~Trapped
    /\ LET socket == table[this]
           fd == socket.inner.stream
       IN  IF accept_state(socket.tcp_state) # "Ok"
           THEN Reject("accept", this, "Allow", accept_state(socket.tcp_state))
           ELSE LET taken == socket.tcp_state.pending_result
                    emptied == [table EXCEPT ![this].tcp_state = Listening(None)]
                    client_fd == IF FreeHandles = {} THEN 0 ELSE Lowest(FreeHandles)
                IN  IF taken.tag = "Some"
                    THEN IF taken.result.tag = "Err"
                         THEN /\ table' = emptied
                              /\ last' = Plain("accept", this, Code(taken.result), <<>>)
                              /\ UNCHANGED <<target_os, os, streams>>
                         ELSE \E room \in 0..3 :
                              /\ room >= 1 => FreeSlots # {}
                              /\ AcceptedInto(emptied, this, taken.result.client, room, <<>>, os)
                    ELSE \E os_accept \in AcceptAnswers(os[fd]) :
                         LET r == poll_accept(socket.inner, os[fd], os_accept, client_fd, target_os)
                         IN  IF r.poll.tag = "Pending"
                             THEN /\ os' = [os EXCEPT ![fd] = r.os]
                                  /\ last' = Plain("accept", this, "WouldBlock", r.sys)
                                  /\ UNCHANGED <<target_os, table, streams>>
                             ELSE IF r.poll.result.tag = "Err"
                             THEN /\ os' = [os EXCEPT ![fd] = r.os]
                                  /\ last' = Plain("accept", this, Code(r.poll.result), r.sys)
                                  /\ UNCHANGED <<target_os, table, streams>>
                             ELSE \E room \in 0..3 :
                                  /\ room >= 1 => FreeSlots # {}
                                  /\ AcceptedInto(emptied, this, r.poll.result.client, room, r.sys,
                                         [os EXCEPT ![fd] = r.os,
                                                    ![client_fd] =
                                                        AcceptedHandle(socket.inner, os[fd],
                                                                       target_os)])

\* how is the std::net::Shutdown the ShutdownType maps to; the OS shutdown
\* call's answer is read once the state check has passed.
shutdown(this, how) ==
    /\ ~Trapped
    /\ LET socket == table[this]
           fd == socket.inner.stream
       IN  IF shutdown_state(socket.tcp_state) # "Ok"
           THEN Reject("shutdown", this, "Allow", shutdown_state(socket.tcp_state))
           ELSE \E os_shutdown \in {"Ok", "ENOTCONN"} :
                LET r == inner_shutdown(socket.inner, os[fd], how, os_shutdown)
                IN  /\ os' = [os EXCEPT ![fd] = r.os]
                    /\ table' = [table EXCEPT ![this].inner = r.inner]
                    /\ last' = Plain("shutdown", this, Code(r.result), r.sys)
                    /\ UNCHANGED <<target_os, streams>>

\* HostTcpSocket::hop_limit
hop_limit(this) ==
    /\ ~Trapped
    /\ LET socket == table[this]
           r == inner_hop_limit(socket.inner, os[socket.inner.stream])
       IN  last' = OptionCall("hop_limit", this,
                              IF r.result.tag = "Ok" THEN r.value ELSE 0,
                              Code(r.result), r.sys)
    /\ UNCHANGED <<target_os, table, os, streams>>

\* HostTcpSocket::set_hop_limit; the OS setsockopt call's answer is read
\* only when the call is made.
set_hop_limit(this, value) ==
    /\ ~Trapped
    /\ \E os_set \in SetsockoptAnswers :
          LET socket == table[this]
              fd == socket.inner.stream
              r == inner_set_hop_limit(socket.inner, os[fd], value, os_set, target_os)
          IN  /\ r.sys = <<>> => os_set = "Ok"
              /\ os' = [os EXCEPT ![fd] = r.os]
              /\ table' = [table EXCEPT ![this].inner = r.inner]
              /\ last' = OptionCall("set_hop_limit", this, value, Code(r.result), r.sys)
              /\ UNCHANGED <<target_os, streams>>

\* HostTcpSocket::local_address; the OS call's answer is read once the
\* state check has passed.
local_address(this) ==
    /\ ~Trapped
    /\ LET socket == table[this]
       IN  IF local_address_state(socket.tcp_state) # "Ok"
           THEN Reject("local_address", this, "Allow", local_address_state(socket.tcp_state))
           ELSE \E os_answer \in {"Ok", "ENOBUFS"} :
                LET r == inner_local_address(socket.inner, os[socket.inner.stream], os_answer)
                IN  /\ last' = Plain("local_address", this, Code(r.result), r.sys)
                    /\ UNCHANGED <<target_os, table, os, streams>>

\* HostTcpSocket::remote_address
remote_address(this) ==
    /\ ~Trapped
    /\ LET socket == table[this]
       IN  IF remote_address_state(socket.tcp_state) # "Ok"
           THEN Reject("remote_address", this, "Allow", remote_address_state(socket.tcp_state))
           ELSE \E os_answer \in {"Ok", "ENOTCONN"} :
                LET r == inner_remote_address(socket.inner, os[socket.inner.stream], os_answer)
                IN  /\ last' = Plain("remote_address", this, Code(r.result), r.sys)
                    /\ UNCHANGED <<target_os, table, os, streams>>

\* HostTcpSocket::is_listening: it reads tcp_state and asks neither the
\* backend nor the OS.  The record's value is 1 for Ok(true), 0 for
\* Ok(false).
is_listening(this) ==
    /\ ~Trapped
    /\ last' = OptionCall("is_listening", this,
                          IF is_listening_state(table[this].tcp_state) THEN 1 ELSE 0,
                          "Ok", <<>>)
    /\ UNCHANGED <<target_os, table, os, streams>>

\* The values a guest passes to the setters that take a u64 (a size, a
\* number of connections, or nanoseconds: 1.5 * 10^9 is a second and a
\* half) and to the one that takes a u32, and the answers of the OS to the
\* setsockopt call for a buffer size.
U64Values == {ToU64(0), ToU64(1), ToU64(1500000000), U64_MAX}
U32Values == {ToU64(0), ToU64(1), ToU64(128), U32_MAX}
BufferAnswers == SetsockoptAnswers \cup {"ENOBUFS", "EINVAL"}

\* usize::try_from(u64) followed by unwrap_or(usize::MAX); a usize has 64
\* bits on each of the targets.
USIZE_MAX == U64_MAX
try_into_usize(value) == IF U64Less(USIZE_MAX, value) THEN USIZE_MAX ELSE value

\* What every option setter of the host does with the outcome of the
\* backend call.
SetOption(op, this, arg, answer, r) ==
    /\ os' = [os EXCEPT ![table[this].inner.stream] = r.os]
    /\ table' = [table EXCEPT ![this].inner = r.inner]
    /\ last' = [SetterCall(op, this, arg, Code(r.result), r.sys, r.sent)
                   EXCEPT !.answer = answer]
    /\ UNCHANGED <<target_os, streams>>

\* HostTcpSocket::set_listen_backlog_size; the answer of the OS is read
\* only when the call is made.
set_listen_backlog_size(this, value) ==
    /\ ~Trapped
    /\ \E os_listen \in {"Ok"} \cup ListenErrnos :
          LET socket == table[this]
              r == inner_set_listen_backlog_size(socket.inner, os[socket.inner.stream],
                                                 try_into_usize(value), os_listen)
          IN  /\ r.sys = <<>> => os_listen = "Ok"
              /\ SetOption("set_listen_backlog_size", this, value, os_listen, r)

\* HostTcpSocket::set_keep_alive_idle_time; value is in nanoseconds
set_keep_alive_idle_time(this, value) ==
    /\ ~Trapped
    /\ \E os_set \in SetsockoptAnswers :
          LET socket == table[this]
              r == inner_set_keep_alive_idle_time(socket.inner, os[socket.inner.stream],
                                                  from_nanos(value), os_set, target_os)
          IN  /\ r.sys = <<>> => os_set = "Ok"
              /\ SetOption("set_keep_alive_idle_time", this, value, os_set, r)

\* HostTcpSocket::set_keep_alive_interval; value is in nanoseconds
set_keep_alive_interval(this, value) ==
    /\ ~Trapped
    /\ \E os_set \in SetsockoptAnswers :
          LET socket == table[this]
              r == inner_set_keep_alive_interval(socket.inner, os[socket.inner.stream],
                                                 from_nanos(value), os_set)
          IN  /\ r.sys = <<>> => os_set = "Ok"
              /\ SetOption("set_keep_alive_interval", this, value, os_set, r)

\* HostTcpSocket::set_keep_alive_count; value is a u32
set_keep_alive_count(this, value) ==
    /\ ~Trapped
    /\ \E os_set \in SetsockoptAnswers :
          LET socket == table[this]
              r == inner_set_keep_alive_count(socket.inner, os[socket.inner.stream],
                                              value, os_set)
          IN  /\ r.sys = <<>> => os_set = "Ok"
              /\ SetOption("set_keep_alive_count", this, value, os_set, r)

\* HostTcpSocket::set_receive_buffer_size
set_receive_buffer_size(this, value) ==
    /\ ~Trapped
    /\ \E os_set \in BufferAnswers :
          LET socket == table[this]
              r == inner_set_receive_buffer_size(socket.inner, os[socket.inner.stream],
                                                 try_into_usize(value), os_set, target_os)
          IN  /\ r.sys = <<>> => os_set = "Ok"
              /\ SetOption("set_receive_buffer_size", this, value, os_set, r)

\* HostTcpSocket::set_send_buffer_size
set_send_buffer_size(this, value) ==
    /\ ~Trapped
    /\ \E os_set \in BufferAnswers :
          LET socket == table[this]
              r == inner_set_send_buffer_size(socket.inner, os[socket.inner.stream],
                                              try_into_usize(value), os_set, target_os)
          IN  /\ r.sys = <<>> => os_set = "Ok"
              /\ SetOption("set_send_buffer_size", this, value, os_set, r)

\* ResourceTable::delete: the table without the entry; the reader and the
\* writer pushed as its children stay.
delete(tbl, this) == [s \in DOMAIN tbl \ {this} |-> tbl[s]]

\* HostTcpSocket::drop: the resource leaves the table and is dropped, and
\* with it the future or pending result its state owns.
drop(this) ==
    /\ ~Trapped
    /\ LET dropped == table[this]
           tbl1 == delete(table, this)
           st1 == [h \in DOMAIN streams |->
                     IF (h = dropped.inner.stream \/ h = PendingClient(dropped))
                        /\ streams[h] = HeldStreams
                     THEN NoStreams ELSE streams[h]]
       IN  /\ table' = tbl1
           /\ streams' = st1
           /\ os' = Release(os, tbl1, st1)
           /\ last' = Plain("drop", this, "Ok", <<>>)
           /\ UNCHANGED target_os

\* ready polling the listener whether or not a result is pending.
ready_overwriting(this) ==
    /\ ~Trapped
    /\ LET socket == table[this]
           fd == socket.inner.stream
           state == socket.tcp_state
       IN  IF state.tag = "Connecting" /\ state.future.tag = "Pending"
           THEN LET r == poll_connect(os[fd])
                IN  /\ table' = [table EXCEPT ![this].tcp_state = Connecting(r.future)]
                    /\ os' = [os EXCEPT ![fd] = r.os]
                    /\ streams' = IF r.future = Ready(IoOk)
                                  THEN [streams EXCEPT ![fd] = HeldStreams]
                                  ELSE streams
                    /\ last' = Plain("ready", this,
                                     IF r.future.tag = "Pending" THEN "Pending" ELSE "Ready", r.sys)
                    /\ UNCHANGED target_os
           ELSE IF state.tag = "Listening"
           THEN \E os_accept \in AcceptAnswers(os[fd]) :
                LET client_fd == IF FreeHandles = {} THEN 0 ELSE Lowest(FreeHandles)
                    r == poll_accept(socket.inner, os[fd], os_accept, client_fd, target_os)
                    got == r.poll.tag = "Ready" /\ r.poll.result.tag = "Ok"
                IN  /\ table' = IF r.poll.tag = "Pending" THEN table
                                ELSE [table EXCEPT ![this].tcp_state = Listening(Some(r.poll.result))]
                    /\ os' = IF got
                             THEN [os EXCEPT ![fd] = r.os,
                                             ![client_fd] = AcceptedHandle(socket.inner, os[fd],
                                                                           target_os)]
                             ELSE [os EXCEPT ![fd] = r.os]
                    /\ streams' = IF got THEN [streams EXCEPT ![client_fd] = HeldStreams]
                                  ELSE streams
                    /\ last' = Plain("ready", this,
                                     IF r.poll.tag = "Pending" THEN "Pending" ELSE "Ready", r.sys)
                    /\ UNCHANGED target_os
           ELSE /\ last' = Plain("ready", this, "Ready", <<>>)
                /\ UNCHANGED <<target_os, table, os, streams>>

\* impl Subscribe for TcpSocketResource: one poll of the `ready` future.
\* The record's result says whether the future completed.
\* Between poll_accept returning Poll::Ready and the assignment to
\* pending_result the future does not suspend: the two are one step.
ready(this) ==
    /\ ~Trapped
    /\ LET socket == table[this]
           fd == socket.inner.stream
           state == socket.tcp_state
       IN  IF state.tag = "Connecting" /\ state.future.tag = "Pending"
           THEN LET r == poll_connect(os[fd])
                IN  /\ table' = [table EXCEPT ![this].tcp_state = Connecting(r.future)]
                    /\ os' = [os EXCEPT ![fd] = r.os]
                    /\ streams' = IF r.future = Ready(IoOk)
                                  THEN [streams EXCEPT ![fd] = HeldStreams]
                                  ELSE streams
                    /\ last' = Plain("ready", this,
                                     IF r.future.tag = "Pending" THEN "Pending" ELSE "Ready", r.sys)
                    /\ UNCHANGED target_os
           ELSE IF state.tag = "Listening" /\ state.pending_result.tag = "None"
           THEN \E os_accept \in AcceptAnswers(os[fd]) :
                LET client_fd == IF FreeHandles = {} THEN 0 ELSE Lowest(FreeHandles)
                    r == poll_accept(socket.inner, os[fd], os_accept, client_fd, target_os)
                    got == r.poll.tag = "Ready" /\ r.poll.result.tag = "Ok"
                IN  /\ table' = IF r.poll.tag = "Pending" THEN table
                                ELSE [table EXCEPT ![this].tcp_state = Listening(Some(r.poll.result))]
                    /\ os' = IF got
                             THEN [os EXCEPT ![fd] = r.os,
                                             ![client_fd] = AcceptedHandle(socket.inner, os[fd],
                                                                           target_os)]
                             ELSE [os EXCEPT ![fd] = r.os]
                    /\ streams' = IF got THEN [streams EXCEPT ![client_fd] = HeldStreams]
                                  ELSE streams
                    /\ last' = Plain("ready", this,
                                     IF r.poll.tag = "Pending" THEN "Pending" ELSE "Ready", r.sys)
                    /\ UNCHANGED target_os
           ELSE /\ last' = Plain("ready", this, "Ready", <<>>)
                /\ UNCHANGED <<target_os, table, os, streams>>

(* ------- SystemTcpReader, SystemTcpWriter (crates/wasi/src/tcp.rs) ----- *)

\* The guest drops the input stream: the SystemTcpReader goes, and with it
\* its share of the handle.
drop_reader(fd) ==
    /\ ~Trapped
    /\ streams[fd].reader = "live"
    /\ LET st1 == [streams EXCEPT ![fd].reader = "none"]
       IN  /\ streams' = st1
           /\ os' = Release(os, table, st1)
    /\ last' = StreamCall("drop_reader", fd, "Ok", <<>>)
    /\ UNCHANGED <<target_os, table>>

\* The writer as a tokio OwnedWriteHalf: shutting the write side down when
\* it is dropped.
drop_writer_owned_half(fd) ==
    /\ ~Trapped
    /\ streams[fd].writer = "live"
    /\ LET st1 == [streams EXCEPT ![fd].writer = "none"]
       IN  /\ streams' = st1
           /\ os' = Release([os EXCEPT ![fd].shut = shut_after(@, "write")], table, st1)
    /\ last' = StreamCall("drop_writer", fd, "Ok", <<"shutdown">>)
    /\ UNCHANGED <<target_os, table>>

\* The guest drops the output stream: the SystemTcpWriter goes, and with it
\* its share of the handle.
drop_writer(fd) ==
    /\ ~Trapped
    /\ streams[fd].writer = "live"
    /\ LET st1 == [streams EXCEPT ![fd].writer = "none"]
       IN  /\ streams' = st1
           /\ os' = Release(os, table, st1)
    /\ last' = StreamCall("drop_writer", fd, "Ok", <<>>)
    /\ UNCHANGED <<target_os, table>>

\* AsyncWrite::poll_shutdown of the writer: Poll::Ready(Ok(())), nothing done.
poll_shutdown(fd) ==
    /\ ~Trapped
    /\ streams[fd].writer = "live"
    /\ last' = StreamCall("poll_shutdown", fd, "Ok", <<>>)
    /\ UNCHANGED <<target_os, table, os, streams>>

\* AsyncRead::poll_read of the reader, the handle being ready: try_read_buf
\* on the shared handle gives bytes, or none at the end of the stream.
poll_read(fd) ==
    /\ ~Trapped
    /\ streams[fd].reader = "live"
    /\ last' = StreamCall("poll_read", fd, IF os[fd].open THEN "Ok" ELSE "EBADF", <<"recv">>)
    /\ UNCHANGED <<target_os, table, os, streams>>

\* AsyncWrite::poll_write of the writer, the handle being ready: try_write
\* on the shared handle, which the OS refuses once the write side was shut
\* down.
poll_write(fd) ==
    /\ ~Trapped
    /\ streams[fd].writer = "live"
    /\ last' = StreamCall("poll_write", fd,
                          IF ~os[fd].open THEN "EBADF"
                          ELSE IF os[fd].shut \in {"write", "both"} THEN "EPIPE"
                          ELSE "Ok",
                          <<"send">>)
    /\ UNCHANGED <<target_os, table, os, streams>>

\* What the OS answers to a recv call on a handle: data when some is
\* queued; with none queued EAGAIN, or the end of the stream, or an error.
ReadAnswers(osh) ==
    IF osh.rcvq > 0 THEN {"data"} ELSE {"EAGAIN", "eof", "ECONNRESET"}

\* What the OS answers to a send call: EPIPE once the write side was shut
\* down, EAGAIN while the send buffer is full, otherwise it takes the bytes
\* or reports the connection reset.
WriteAnswers(osh) ==
    IF osh.shut \in {"write", "both"} THEN {"EPIPE"}
    ELSE IF osh.sndfull THEN {"EAGAIN"}
    ELSE {"Ok", "ECONNRESET"}

\* TcpStream::try_read_buf; os_read is the OS recv call's answer.  As in
\* try_accept, the readiness is cleared when the attempt would block.
try_read_buf(osh, os_read) ==
    IF os_read = "data"
    THEN [result |-> IoOk, os |-> [osh EXCEPT !.rcvq = @ - 1], sys |-> <<"recv">>]
    ELSE IF os_read = "eof"
    THEN [result |-> IoOk, os |-> osh, sys |-> <<"recv">>]
    ELSE LET e == OsError(os_read)
         IN  [result |-> Err(e),
              os |-> IF e.kind = "WouldBlock" THEN [osh EXCEPT !.readable = FALSE] ELSE osh,
              sys |-> <<"recv">>]

\* TcpStream::try_write; os_write is the OS send call's answer and full
\* says whether the bytes taken filled the send buffer.
try_write(osh, os_write, full) ==
    IF os_write = "Ok"
    THEN [result |-> IoOk, os |-> [osh EXCEPT !.sndfull = full], sys |-> <<"send">>]
    ELSE LET e == OsError(os_write)
         IN  [result |-> Err(e),
              os |-> IF e.kind = "WouldBlock" THEN [osh EXCEPT !.writable = FALSE] ELSE osh,
              sys |-> <<"send">>]

\* One turn of the while loop of SystemTcpReader::poll_read, as accept_loop.
read_loop(osh, os_read) ==
    IF ~osh.readable
    THEN [poll |-> Pending, os |-> osh, sys |-> <<>>]
    ELSE LET r == try_read_buf(osh, os_read)
         IN  IF r.result.tag = "Err" /\ r.result.err.kind = "WouldBlock"
             THEN [poll |-> [tag |-> "Continue"], os |-> r.os, sys |-> r.sys]
             ELSE [poll |-> Ready(r.result), os |-> r.os, sys |-> r.sys]

\* One turn of the while loop of SystemTcpWriter::poll_write.
write_loop(osh, os_write, full) ==
    IF ~osh.writable
    THEN [poll |-> Pending, os |-> osh, sys |-> <<>>]
    ELSE LET r == try_write(osh, os_write, full)
         IN  IF r.result.tag = "Err" /\ r.result.err.kind = "WouldBlock"
             THEN [poll |-> [tag |-> "Continue"], os |-> r.os, sys |-> r.sys]
             ELSE [poll |-> Ready(r.result), os |-> r.os, sys |-> r.sys]

(* ------------- the retry loops, one turn of the loop a step ------------ *)

\* A call is in the middle of its loop: its record has no result yet.
Running == last.res = "Running"

\* accept up to its call of poll_accept: the socket listens and no result
\* is pending.
poll_accept_begin(this) ==
    /\ ~Trapped /\ ~Running
    /\ table[this].tcp_state = Listening(None)
    /\ last' = Plain("accept", this, "Running", <<>>)
    /\ UNCHANGED <<target_os, table, os, streams>>

\* One turn of the loop of poll_accept_no_box and, when the loop ends, the
\* rest of accept.  The record keeps the OS answer and the system call of
\* the latest turn.
poll_accept_turn ==
    /\ Running /\ last.op = "accept"
    /\ LET this == last.this
           socket == table[this]
           fd == socket.inner.stream
           client_fd == IF FreeHandles = {} THEN 0 ELSE Lowest(FreeHandles)
       IN  \E os_accept \in AcceptAnswers(os[fd]) :
           LET r == accept_loop(socket.inner, os[fd], os_accept, client_fd, target_os)
               answer == IF r.sys = <<>> THEN "Ok" ELSE os_accept
           IN  IF r.poll.tag = "Continue"
               THEN /\ os' = [os EXCEPT ![fd] = r.os]
                    /\ last' = [last EXCEPT !.sys = r.sys, !.answer = answer]
                    /\ UNCHANGED <<target_os, table, streams>>
               ELSE IF r.poll.tag = "Pending"
               THEN /\ last' = [last EXCEPT !.res = "WouldBlock", !.sys = r.sys,
                                            !.answer = answer]
                    /\ UNCHANGED <<target_os, table, os, streams>>
               ELSE IF r.poll.result.tag = "Err"
               THEN /\ os' = [os EXCEPT ![fd] = r.os]
                    /\ last' = [last EXCEPT !.res = Code(r.poll.result), !.sys = r.sys,
                                            !.answer = answer]
                    /\ UNCHANGED <<target_os, table, streams>>
               ELSE \E room \in 0..3 :
                    /\ room >= 1 => FreeSlots # {}
                    /\ AcceptedInto(table, this, r.poll.result.client, room, r.sys,
                           [os EXCEPT ![fd] = r.os,
                                      ![client_fd] = AcceptedHandle(socket.inner, os[fd],
                                                                    target_os)])

\* A poll of the reader, respectively the writer, of handle fd begins.
poll_read_begin(fd) ==
    /\ ~Trapped /\ ~Running
    /\ streams[fd].reader = "live"
    /\ last' = StreamCall("poll_read", fd, "Running", <<>>)
    /\ UNCHANGED <<target_os, table, os, streams>>

poll_write_begin(fd) ==
    /\ ~Trapped /\ ~Running
    /\ streams[fd].writer = "live"
    /\ last' = StreamCall("poll_write", fd, "Running", <<>>)
    /\ UNCHANGED <<target_os, table, os, streams>>

\* One turn of the loop of SystemTcpReader::poll_read
poll_read_turn ==
    /\ Running /\ last.op = "poll_read"
    /\ LET fd == last.pre.inner.stream
       IN  \E os_read \in ReadAnswers(os[fd]) :
           LET r == read_loop(os[fd], os_read)
               answer == IF r.sys = <<>> THEN "Ok" ELSE os_read
           IN  /\ os' = [os EXCEPT ![fd] = r.os]
               /\ last' = [last EXCEPT !.sys = r.sys, !.answer = answer,
                              !.res = IF r.poll.tag = "Continue" THEN "Running"
                                      ELSE IF r.poll.tag = "Pending" THEN "Pending"
                                      ELSE Code(r.poll.result)]
               /\ UNCHANGED <<target_os, table, streams>>

\* One turn of the loop of SystemTcpWriter::poll_write
poll_write_turn ==
    /\ Running /\ last.op = "poll_write"
    /\ LET fd == last.pre.inner.stream
       IN  \E os_write \in WriteAnswers(os[fd]), full \in BOOLEAN :
           LET r == write_loop(os[fd], os_write, full)
               answer == IF r.sys = <<>> THEN "Ok" ELSE os_write
           IN  /\ (r.sys = <<>> \/ os_write # "Ok") => ~full
               /\ os' = [os EXCEPT ![fd] = r.os]
               /\ last' = [last EXCEPT !.sys = r.sys, !.answer = answer,
                              !.res = IF r.poll.tag = "Continue" THEN "Running"
                                      ELSE IF r.poll.tag = "Pending" THEN "Pending"
                                      ELSE Code(r.poll.result)]
               /\ UNCHANGED <<target_os, table, streams>>

(* ------------------------ the operating system ------------------------- *)

\* A step of the OS or the reactor is no guest call; it leaves the record
\* of a call that is in the middle of its loop.
AfterOsStep == IF last.res = "Running" THEN last ELSE Idle

\* A peer connects to a listening handle: the connection is queued and the
\* reactor reports the handle readable.
os_incoming(h) ==
    /\ ~Trapped
    /\ os[h].open /\ os[h].listening /\ os[h].acceptq < MaxQueue
    /\ os' = [os EXCEPT ![h].acceptq = @ + 1, ![h].readable = TRUE]
    /\ last' = AfterOsStep
    /\ UNCHANGED <<target_os, table, streams>>

\* Data arrives on a connected handle: it is queued and the reactor
\* reports the handle readable.
os_data_arrives(h) ==
    /\ ~Trapped
    /\ os[h].open /\ os[h].conn = "established" /\ os[h].rcvq < MaxQueue
    /\ os' = [os EXCEPT ![h].rcvq = @ + 1, ![h].readable = TRUE]
    /\ last' = AfterOsStep
    /\ UNCHANGED <<target_os, table, streams>>

\* The peer takes what was sent: the send buffer has room again and the
\* reactor reports the handle writable.
os_send_buffer_drains(h) ==
    /\ ~Trapped
    /\ os[h].open /\ os[h].sndfull
    /\ os' = [os EXCEPT ![h].sndfull = FALSE, ![h].writable = TRUE]
    /\ last' = AfterOsStep
    /\ UNCHANGED <<target_os, table, streams>>

\* The reactor reports a handle readable or writable with nothing new
\* behind the report: the first report of a new registration, or a false
\* positive.  Each handle gets at most MaxReports of these.
reactor_reports(h, interest) ==
    /\ ~Trapped
    /\ os[h].open /\ os[h].reports < MaxReports
    /\ os' = IF interest = "READABLE"
             THEN [os EXCEPT ![h].readable = TRUE, ![h].reports = @ + 1]
             ELSE [os EXCEPT ![h].writable = TRUE, ![h].reports = @ + 1]
    /\ last' = AfterOsStep
    /\ UNCHANGED <<target_os, table, streams>>

\* The reactor moving the socket to Connected when the connect ends.
os_connect_completes_eager(h, so_error) ==
    /\ ~Trapped
    /\ os[h].open /\ os[h].conn = "inprogress"
    /\ os' = [os EXCEPT ![h].conn = so_error]
    /\ table' = [s \in DOMAIN table |->
                    IF table[s].inner.stream = h /\ so_error = "established"
                    THEN [table[s] EXCEPT !.tcp_state = Connected]
                    ELSE table[s]]
    /\ last' = Idle
    /\ UNCHANGED <<target_os, streams>>

\* A connect in progress ends: the handle becomes writable and SO_ERROR
\* holds the outcome.
os_connect_completes(h, so_error) ==
    /\ ~Trapped
    /\ os[h].open /\ os[h].conn = "inprogress"
    /\ os' = [os EXCEPT ![h].conn = so_error]
    /\ last' = Idle
    /\ UNCHANGED <<target_os, table, streams>>

(* ---------------------------- specification ---------------------------- *)

Next ==
    \/ \E address_family \in {"V4", "V6"}, os_socket \in {"Ok", "EMFILE"} :
          /\ Cardinality(Handles \ FreeHandles) < MaxCreated
          /\ create_tcp_socket(address_family, os_socket)
    \/ \E this \in DOMAIN table, verdict \in Verdicts : start_bind(this, verdict)
    \/ \E this \in DOMAIN table : finish_bind(this)
    \/ \E this \in DOMAIN table, verdict \in Verdicts : start_connect(this, verdict)
    \/ \E this \in DOMAIN table : finish_connect(this)
    \/ \E this \in DOMAIN table : start_listen(this)
    \/ \E this \in DOMAIN table : finish_listen(this)
    \/ \E this \in DOMAIN table : accept(this)
    \/ \E this \in DOMAIN table, how \in {"read", "write", "both"} : shutdown(this, how)
    \/ \E this \in DOMAIN table : drop(this)
    \/ \E this \in DOMAIN table : ready(this)
    \/ \E fd \in Handles : drop_reader(fd)
    \/ \E fd \in Handles : drop_writer(fd)
    \/ \E fd \in Handles : poll_shutdown(fd)
    \/ \E fd \in Handles : poll_read(fd)
    \/ \E fd \in Handles : poll_write(fd)
    \/ \E h \in Handles : os_incoming(h)
    \/ \E h \in Handles, so_error \in {"established"} \cup ConnectErrnos :
          os_connect_completes(h, so_error)

Spec == Init /\ [][Next]_vars

SpecAnyTarget == InitAnyTarget /\ [][Next]_vars

\* The guest creating sockets, binding them, setting and reading their
\* options and dropping them, on any of the targets.
NextOptions ==
    \/ \E address_family \in {"V4", "V6"}, os_socket \in {"Ok", "EMFILE"} :
          /\ Cardinality(Handles \ FreeHandles) < MaxCreated
          /\ create_tcp_socket(address_family, os_socket)
    \/ \E this \in DOMAIN table, verdict \in Verdicts : start_bind(this, verdict)
    \/ \E this \in DOMAIN table : finish_bind(this)
    \/ \E this \in DOMAIN table, value \in HopLimits : set_hop_limit(this, value)
    \/ \E this \in DOMAIN table : hop_limit(this)
    \/ \E this \in DOMAIN table : drop(this)

SpecOptions == InitAnyTarget /\ [][NextOptions]_vars

\* The Linux host with the guest taking sockets down the listening path,
\* accepting connections, and setting and reading options on the way.
NextListener ==
    \/ NextOptions
    \/ \E this \in DOMAIN table : start_listen(this)
    \/ \E this \in DOMAIN table : finish_listen(this)
    \/ \E this \in DOMAIN table : accept(this)
    \/ \E this \in DOMAIN table, how \in {"read", "write", "both"} : shutdown(this, how)
    \/ \E this \in DOMAIN table : ready(this)
    \/ \E this \in DOMAIN table : is_listening(this)
    \/ \E h \in Handles : os_incoming(h)

SpecListener == Init /\ [][NextListener]_vars

\* The options of a socket that differ from what a new socket has: set on
\* its handle, or stored in its backend object.
OptionsSet(this) ==
    LET inner == table[this].inner
        osh == os[inner.stream]
    IN  {"hop_limit" : x \in {1} \cap
            {IF osh.ip_ttl # 64 \/ osh.ipv6_unicast_hops # 64 \/ inner.hop_limit # None
             THEN 1 ELSE 0}}
        \cup {"listen_backlog_size" : x \in {1} \cap
            {IF inner.listen_backlog_size # DEFAULT_BACKLOG_SIZE THEN 1 ELSE 0}}
        \cup {"keep_alive_idle_time" : x \in {1} \cap
            {IF osh.tcp_keepidle # <<0, 0>> \/ inner.keep_alive_idle_time # None
             THEN 1 ELSE 0}}
        \cup {"keep_alive_interval" : x \in {1} \cap
            {IF osh.tcp_keepintvl # <<0, 0>> THEN 1 ELSE 0}}
        \cup {"keep_alive_count" : x \in {1} \cap {IF osh.tcp_keepcnt # 0 THEN 1 ELSE 0}}
        \cup {"receive_buffer_size" : x \in {1} \cap
            {IF osh.so_rcvbuf # 0 \/ inner.receive_buffer_size # None THEN 1 ELSE 0}}
        \cup {"send_buffer_size" : x \in {1} \cap
            {IF osh.so_sndbuf # 0 \/ inner.send_buffer_size # None THEN 1 ELSE 0}}

\* The guest setting an option of a socket only while, with that option,
\* at most MaxOptions of its options are set.
MayChange(this, option) == Cardinality(OptionsSet(this) \cup {option}) <= MaxOptions

\* The guest creating sockets, taking them to listening or connecting
\* them, setting their listen backlog, keep-alive options and buffer sizes,
\* and dropping them, on any of the targets.
NextSetters ==
    \/ \E address_family \in {"V4", "V6"}, os_socket \in {"Ok", "EMFILE"} :
          /\ Cardinality(Handles \ FreeHandles) < MaxCreated
          /\ create_tcp_socket(address_family, os_socket)
    \/ \E this \in DOMAIN table, verdict \in Verdicts : start_bind(this, verdict)
    \/ \E this \in DOMAIN table : finish_bind(this)
    \/ \E this \in DOMAIN table : start_listen(this)
    \/ \E this \in DOMAIN table : finish_listen(this)
    \/ \E this \in DOMAIN table, value \in U64Values :
          /\ MayChange(this, "listen_backlog_size")
          /\ set_listen_backlog_size(this, value)
    \/ \E this \in DOMAIN table, value \in U64Values :
          /\ MayChange(this, "keep_alive_idle_time")
          /\ set_keep_alive_idle_time(this, value)
    \/ \E this \in DOMAIN table, value \in U64Values :
          /\ MayChange(this, "keep_alive_interval")
          /\ set_keep_alive_interval(this, value)
    \/ \E this \in DOMAIN table, value \in U32Values :
          /\ MayChange(this, "keep_alive_count")
          /\ set_keep_alive_count(this, value)
    \/ \E this \in DOMAIN table, value \in U64Values :
          /\ MayChange(this, "receive_buffer_size")
          /\ set_receive_buffer_size(this, value)
    \/ \E this \in DOMAIN table, value \in U64Values :
          /\ MayChange(this, "send_buffer_size")
          /\ set_send_buffer_size(this, value)
    \/ \E this \in DOMAIN table, verdict \in Verdicts : start_connect(this, verdict)
    \/ \E this \in DOMAIN table : finish_connect(this)
    \/ \E h \in Handles, so_error \in {"established"} \cup ConnectErrnos :
          os_connect_completes(h, so_error)
    \/ \E this \in DOMAIN table : drop(this)

SpecSetters == InitAnyTarget /\ [][NextSetters]_vars

\* The Linux host with the guest taking sockets down the listening path,
\* accepting connections and setting the listen backlog on the way.
NextBacklog ==
    \/ \E address_family \in {"V4", "V6"}, os_socket \in {"Ok", "EMFILE"} :
          /\ Cardinality(Handles \ FreeHandles) < MaxCreated
          /\ create_tcp_socket(address_family, os_socket)
    \/ \E this \in DOMAIN table, verdict \in Verdicts : start_bind(this, verdict)
    \/ \E this \in DOMAIN table : finish_bind(this)
    \/ \E this \in DOMAIN table : start_listen(this)
    \/ \E this \in DOMAIN table : finish_listen(this)
    \/ \E this \in DOMAIN table : accept(this)
    \/ \E this \in DOMAIN table : ready(this)
    \/ \E this \in DOMAIN table, value \in U64Values : set_listen_backlog_size(this, value)
    \/ \E this \in DOMAIN table : drop(this)
    \/ \E h \in Handles : os_incoming(h)

SpecBacklog == Init /\ [][NextBacklog]_vars

\* The conversion of I/O errors into error codes applied to each error of
\* the target the host is built for.
NextErrorCode == \E value \in IoErrors(target_os) : error_code_from(value)

SpecErrorCode == InitAnyTarget /\ [][NextErrorCode]_vars

\* The loopback scenario on the Linux host.  The guest creates a V4 socket
\* (entry 1 of the table), binds it and takes it to listening; it then
\* creates a second V4 socket (entry 2), connects it, waits for it and
\* finishes the connect; once that socket is connected it accepts on the
\* first.  The OS queues connections and completes connects as it likes.
InitLoopback ==
    /\ target_os = "linux"
    /\ table = <<>>
    /\ os = [h \in 1..LoopbackHandles |-> ClosedHandle]
    /\ streams = [h \in 1..LoopbackHandles |-> NoStreams]
    /\ last = Idle

ListenerUp == 1 \in DOMAIN table /\ table[1].tcp_state.tag = "Listening"
ClientUp == 2 \in DOMAIN table /\ table[2].tcp_state.tag = "Connected"

NextLoopback ==
    \/ \E os_socket \in {"Ok", "EMFILE"} :
          /\ table = <<>> \/ (ListenerUp /\ DOMAIN table = {1})
          /\ create_tcp_socket("V4", os_socket)
    \/ 1 \in DOMAIN table /\ start_bind(1, "Allow")
    \/ 1 \in DOMAIN table /\ finish_bind(1)
    \/ 1 \in DOMAIN table /\ start_listen(1)
    \/ 1 \in DOMAIN table /\ finish_listen(1)
    \/ 2 \in DOMAIN table /\ start_connect(2, "Allow")
    \/ 2 \in DOMAIN table /\ ready(2)
    \/ 2 \in DOMAIN table /\ finish_connect(2)
    \/ ListenerUp /\ ClientUp /\ accept(1)
    \/ \E h \in DOMAIN os : os_incoming(h)
    \/ \E h \in DOMAIN os, so_error \in {"established"} \cup ConnectErrnos :
          os_connect_completes(h, so_error)

SpecLoopback == InitLoopback /\ [][NextLoopback]_vars

\* The Linux host with the guest taking sockets along the whole lifecycle
\* and asking for their local and remote addresses on the way.
NextAddresses ==
    \/ \E address_family \in {"V4", "V6"}, os_socket \in {"Ok", "EMFILE"} :
          /\ Cardinality(Handles \ FreeHandles) < MaxCreated
          /\ create_tcp_socket(address_family, os_socket)
    \/ \E this \in DOMAIN table : start_bind(this, "Allow")
    \/ \E this \in DOMAIN table : finish_bind(this)
    \/ \E this \in DOMAIN table : start_connect(this, "Allow")
    \/ \E this \in DOMAIN table : finish_connect(this)
    \/ \E this \in DOMAIN table : start_listen(this)
    \/ \E this \in DOMAIN table : finish_listen(this)
    \/ \E this \in DOMAIN table : accept(this)
    \/ \E this \in DOMAIN table : ready(this)
    \/ \E this \in DOMAIN table : local_address(this)
    \/ \E this \in DOMAIN table : remote_address(this)
    \/ \E this \in DOMAIN table : drop(this)
    \/ \E h \in Handles : os_incoming(h)
    \/ \E h \in Handles, so_error \in {"established"} \cup ConnectErrnos :
          os_connect_completes(h, so_error)

SpecAddresses == Init /\ [][NextAddresses]_vars

\* The Linux host with the retry loops of accept, read and write taken one
\* turn at a time.  The guest makes one call at a time: it sets sockets up
\* by the lifecycle calls and begins an accept, a read or a write only when
\* no call is in the middle of its loop; the OS and the reactor act at any
\* time.
NextRetry ==
    \/ \E os_socket \in {"Ok", "EMFILE"} :
          /\ ~Running
          /\ Cardinality(Handles \ FreeHandles) < MaxCreated
          /\ create_tcp_socket("V4", os_socket)
    \/ \E this \in DOMAIN table : ~Running /\ start_bind(this, "Allow")
    \/ \E this \in DOMAIN table : ~Running /\ finish_bind(this)
    \/ \E this \in DOMAIN table : ~Running /\ start_listen(this)
    \/ \E this \in DOMAIN table : ~Running /\ finish_listen(this)
    \/ \E this \in DOMAIN table : ~Running /\ start_connect(this, "Allow")
    \/ \E this \in DOMAIN table : ~Running /\ finish_connect(this)
    \/ \E this \in DOMAIN table : ~Running /\ drop(this)
    \/ \E this \in DOMAIN table : poll_accept_begin(this)
    \/ poll_accept_turn
    \/ \E fd \in Handles : poll_read_begin(fd)
    \/ poll_read_turn
    \/ \E fd \in Handles : poll_write_begin(fd)
    \/ poll_write_turn
    \/ \E h \in Handles : os_incoming(h)
    \/ \E h \in Handles : os_data_arrives(h)
    \/ \E h \in Handles : os_send_buffer_drains(h)
    \/ \E h \in Handles, interest \in {"READABLE", "WRITABLE"} : reactor_reports(h, interest)
    \/ \E h \in Handles, so_error \in {"established"} \cup ConnectErrnos :
          ~Running /\ os_connect_completes(h, so_error)

\* A loop that has begun goes on: it is straight-line code of the thread
\* that runs the call, and neither the OS nor the reactor holds it up.
RetryFairness ==
    /\ WF_vars(poll_accept_turn)
    /\ WF_vars(poll_read_turn)
    /\ WF_vars(poll_write_turn)

SpecRetry == Init /\ [][NextRetry]_vars /\ RetryFairness

(* ------------------------------ properties ----------------------------- *)

\* The state the socket of the latest call was in when the call was made,
\* and the state it is in now.
Before == last.pre.tcp_state.tag
After == table[last.this].tcp_state.tag

\* The latest call left the socket's state, respectively its backend (the
\* SystemTcpSocket and the OS state of its handle), as it found them.
StateKept == table[last.this].tcp_state = last.pre.tcp_state
BackendKept ==
    /\ table[last.this].inner = last.pre.inner
    /\ os[last.pre.inner.stream] = last.pre_os

\* The elements of a sequence.
Range(seq) == {seq[i] : i \in DOMAIN seq}

\* The reader and the writer of the handle are stream resources of the guest.
BothLive(fd) == streams[fd] = [reader |-> "live", writer |-> "live"]

\* C1: a start_bind the network capability allows returns ok only if the
\* socket was in Default, and the socket is then in BindStarted; called in
\* BindStarted it returns ConcurrencyConflict, called in Bound, ListenStarted,
\* Listening, Connecting or Connected it returns InvalidState, and in both
\* error cases the state is as it was.
C1_StartBind ==
    (last.op = "start_bind" /\ last.verdict = "Allow") =>
        /\ last.res = "Ok" => Before = "Default" /\ After = "BindStarted"
        /\ Before = "BindStarted" => last.res = "ConcurrencyConflict" /\ StateKept
        /\ Before \in {"Bound", "ListenStarted", "Listening", "Connecting", "Connected"} =>
              last.res = "InvalidState" /\ StateKept

\* A start_bind returned ok and left the socket in BindStarted.
C1_Witness ==
    /\ last.op = "start_bind" /\ last.verdict = "Allow" /\ last.res = "Ok"
    /\ Before = "Default" /\ After = "BindStarted"

\* C2: a start_connect the network capability allows returns ok only if the
\* socket was in Default, and the socket is then in Connecting; called in
\* Connecting it returns ConcurrencyConflict, called in BindStarted, Bound,
\* ListenStarted, Listening or Connected it returns InvalidState, and in both
\* error cases the state is as it was.
C2_StartConnect ==
    (last.op = "start_connect" /\ last.verdict = "Allow") =>
        /\ last.res = "Ok" => Before = "Default" /\ After = "Connecting"
        /\ Before = "Connecting" => last.res = "ConcurrencyConflict" /\ StateKept
        /\ Before \in {"BindStarted", "Bound", "ListenStarted", "Listening", "Connected"} =>
              last.res = "InvalidState" /\ StateKept

\* A start_connect with a valid remote address returned ok and left the
\* socket in Connecting.
C2_Witness ==
    /\ last.op = "start_connect" /\ last.verdict = "Allow" /\ last.res = "Ok"
    /\ ConnectValidated(last.addr, last.pre.inner.family)
    /\ Before = "Default" /\ After = "Connecting"

\* What the connect of the latest call's socket had come to when the call
\* was made: the result its future holds, or else what the OS has to report.
ConnectOutcome ==
    LET future == last.pre.tcp_state.future
    IN  IF future.tag = "Ready"
        THEN IF future.result.tag = "Ok" THEN "succeeded" ELSE "failed"
        ELSE CASE last.pre_os.conn = "inprogress" -> "unresolved"
               [] last.pre_os.conn = "established" -> "succeeded"
               [] OTHER -> "failed"

\* The io::Error of a connect that failed.
ConnectError ==
    LET future == last.pre.tcp_state.future
    IN  IF future.tag = "Ready" THEN future.result.err ELSE OsError(last.pre_os.conn)

\* C3: a finish_connect that returns to the guest: called in a state other
\* than Connecting it returns NotInProgress and changes neither the state nor
\* the backend; called in Connecting it returns WouldBlock and stays in
\* Connecting while the connect is unresolved, returns ok with the reader and
\* the writer as live streams and moves to Connected when the connect
\* succeeded, and returns the mapped error and moves to Default when the
\* connect failed; Default passes start_connect's state check, and a
\* start_connect called in Default with an allowed and valid address goes on
\* to the OS connect call.
C3_FinishConnect ==
    /\ (last.op = "finish_connect" /\ last.res # "Trap") =>
          IF Before # "Connecting"
          THEN last.res = "NotInProgress" /\ StateKept /\ BackendKept
          ELSE CASE ConnectOutcome = "unresolved" ->
                      /\ last.res = "WouldBlock"
                      /\ table[last.this].tcp_state = Connecting(Pending)
                 [] ConnectOutcome = "succeeded" ->
                      /\ last.res = "Ok"
                      /\ After = "Connected"
                      /\ BothLive(last.pre.inner.stream)
                 [] ConnectOutcome = "failed" ->
                      /\ last.res = IoErrorToErrorCode(ConnectError, target_os)
                      /\ After = "Default"
                      /\ start_connect_state(table[last.this].tcp_state) = "Ok"
    /\ (/\ last.op = "start_connect" /\ last.verdict = "Allow"
        /\ Before = "Default"
        /\ ConnectValidated(last.addr, last.pre.inner.family)) =>
          last.sys = <<"connect">>

\* A finish_connect reported the failure of the connect and left the socket
\* in Default.
C3_Witness ==
    /\ last.op = "finish_connect" /\ Before = "Connecting"
    /\ ConnectOutcome = "failed"
    /\ last.res = "ConnectionRefused" /\ After = "Default"

\* C4 as stated: start_listen returns ok only if the socket was in Bound,
\* and the socket is then in ListenStarted; called in BindStarted or
\* Connecting it returns ConcurrencyConflict; called in Default,
\* ListenStarted, Listening or Connected it returns InvalidState; the state
\* is as it was whenever an error is returned.
C4_AsStated ==
    last.op = "start_listen" =>
        /\ last.res = "Ok" => Before = "Bound" /\ After = "ListenStarted"
        /\ Before \in {"BindStarted", "Connecting"} => last.res = "ConcurrencyConflict"
        /\ Before \in {"Default", "ListenStarted", "Listening", "Connected"} =>
              last.res = "InvalidState"
        /\ last.res # "Ok" => StateKept

\* C4, amended: start_listen returns ok only if the socket was in Bound, and
\* the socket is then in ListenStarted; called in BindStarted, Connecting or
\* ListenStarted it returns ConcurrencyConflict; called in Default, Listening
\* or Connected it returns InvalidState; the state is as it was whenever an
\* error is returned.
C4_StartListen ==
    last.op = "start_listen" =>
        /\ last.res = "Ok" => Before = "Bound" /\ After = "ListenStarted"
        /\ Before \in {"BindStarted", "Connecting", "ListenStarted"} =>
              last.res = "ConcurrencyConflict"
        /\ Before \in {"Default", "Listening", "Connected"} => last.res = "InvalidState"
        /\ last.res # "Ok" => StateKept

\* A start_listen called in ListenStarted returned ConcurrencyConflict.
C4_Witness ==
    /\ last.op = "start_listen" /\ Before = "ListenStarted"
    /\ last.res = "ConcurrencyConflict" /\ After = "ListenStarted"

\* C5: accept called in a state other than Listening returns InvalidState;
\* called in Listening with no pending result and no connection queued it
\* returns WouldBlock; when it returns ok, the socket it returns is another
\* resource than the listener, on another handle, in state Connected, with
\* its reader and writer as live streams; whatever the outcome, a listener
\* that was in Listening is in Listening.
C5_Accept ==
    last.op = "accept" =>
        /\ Before # "Listening" => last.res = "InvalidState"
        /\ (/\ Before = "Listening"
            /\ last.pre.tcp_state.pending_result = None
            /\ last.pre_os.acceptq = 0) => last.res = "WouldBlock"
        /\ last.res = "Ok" =>
              /\ last.child \in DOMAIN table
              /\ last.child # last.this
              /\ table[last.child].tcp_state = Connected
              /\ table[last.child].inner.stream # last.pre.inner.stream
              /\ BothLive(table[last.child].inner.stream)
        /\ Before = "Listening" => After = "Listening"

\* An accept returned a socket in Connected and the listener is in
\* Listening.
C5_Witness ==
    /\ last.op = "accept" /\ last.res = "Ok"
    /\ last.child \in DOMAIN table
    /\ table[last.child].tcp_state = Connected
    /\ After = "Listening"

\* What finish_bind says of a call, as a predicate of the state the call
\* leaves.
FinishBindCall ==
    last.op = "finish_bind" =>
        /\ last.res = "Ok" <=> Before = "BindStarted"
        /\ last.res = "Ok" => After = "Bound"
        /\ Before # "BindStarted" => last.res = "NotInProgress" /\ StateKept

\* C6: finish_bind returns ok exactly when the socket was in BindStarted, and
\* the socket is then in Bound; in every other state it returns NotInProgress
\* and the state is as it was.  A socket enters BindStarted in a start_bind
\* on it and in no other step: so of two finish_bind calls with no
\* start_bind between them, the second finds a state other than BindStarted
\* and returns NotInProgress.
C6_FinishBind ==
    [][/\ FinishBindCall'
       /\ \A s \in DOMAIN table \cap DOMAIN table' :
             (table[s].tcp_state.tag # "BindStarted" /\ table'[s].tcp_state.tag = "BindStarted")
                => (last'.op = "start_bind" /\ last'.this = s)
       /\ (/\ last.op = "finish_bind" /\ last'.op = "finish_bind"
           /\ last'.this = last.this) => last'.res = "NotInProgress"]_vars

\* A finish_bind returned ok and left the socket in Bound.
C6_Witness ==
    /\ last.op = "finish_bind" /\ last.res = "Ok"
    /\ Before = "BindStarted" /\ After = "Bound"

\* C7: finish_listen returns ok exactly when the socket was in ListenStarted,
\* and the socket is then in Listening with an empty pending result; in
\* every other state, Listening among them, it returns NotInProgress and the
\* state is as it was.
C7_FinishListen ==
    last.op = "finish_listen" =>
        /\ last.res = "Ok" <=> Before = "ListenStarted"
        /\ last.res = "Ok" => table[last.this].tcp_state = Listening(None)
        /\ Before # "ListenStarted" => last.res = "NotInProgress" /\ StateKept

\* A finish_listen called in Listening, with a result pending, returned
\* NotInProgress.
C7_Witness ==
    /\ last.op = "finish_listen" /\ Before = "Listening"
    /\ last.pre.tcp_state.pending_result # None
    /\ last.res = "NotInProgress"

\* C8: the OS shutdown call is issued only by a shutdown called in
\* Connected; the socket is then in Connected whatever the OS answered;
\* called in Connecting shutdown returns ConcurrencyConflict, called in any
\* other state InvalidState, and in neither case is a system call issued or
\* the OS state of the handle changed.
C8_Shutdown ==
    last.op = "shutdown" =>
        /\ last.sys # <<>> => Before = "Connected"
        /\ Before = "Connected" => last.sys = <<"shutdown">> /\ After = "Connected"
        /\ Before = "Connecting" => last.res = "ConcurrencyConflict"
        /\ Before \notin {"Connected", "Connecting"} => last.res = "InvalidState"
        /\ Before # "Connected" => last.sys = <<>> /\ StateKept /\ BackendKept

\* The OS shutdown call failed and the socket is in Connected.
C8_Witness ==
    /\ last.op = "shutdown" /\ Before = "Connected"
    /\ last.sys = <<"shutdown">> /\ last.res # "Ok"
    /\ After = "Connected"

\* The edges of the lifecycle.
Edges ==
    { <<"Default", "BindStarted">>, <<"BindStarted", "Bound">>,
      <<"Bound", "ListenStarted">>, <<"ListenStarted", "Listening">>,
      <<"Default", "Connecting">>, <<"Connecting", "Connected">>,
      <<"Connecting", "Default">> }

\* C9: in every step, each socket resource that changes its state changes it
\* along one of the listed edges.
C9_ListedEdges ==
    [][\A s \in DOMAIN table \cap DOMAIN table' :
          table[s].tcp_state.tag # table'[s].tcp_state.tag =>
              <<table[s].tcp_state.tag, table'[s].tcp_state.tag>> \in Edges]_vars

\* A socket went from Connecting to Connected.
C9_Witness ==
    /\ last.op = "finish_connect"
    /\ Before = "Connecting" /\ After = "Connected"

\* The lifecycle operations, the state the transition table lets each start
\* from, and the error the table gives for every other state.
LifecycleOps ==
    {"start_bind", "finish_bind", "start_connect", "finish_connect",
     "start_listen", "finish_listen", "accept", "shutdown"}

TableFrom(op) ==
    CASE op \in {"start_bind", "start_connect"} -> "Default"
      [] op = "finish_bind" -> "BindStarted"
      [] op = "finish_connect" -> "Connecting"
      [] op = "start_listen" -> "Bound"
      [] op = "finish_listen" -> "ListenStarted"
      [] op = "accept" -> "Listening"
      [] op = "shutdown" -> "Connected"

TableError(op, state) ==
    CASE op = "start_bind" ->
            IF state = "BindStarted" THEN "ConcurrencyConflict" ELSE "InvalidState"
      [] op \in {"start_connect", "shutdown"} ->
            IF state = "Connecting" THEN "ConcurrencyConflict" ELSE "InvalidState"
      [] op = "start_listen" ->
            IF state \in {"BindStarted", "Connecting"} THEN "ConcurrencyConflict"
            ELSE "InvalidState"
      [] op = "accept" -> "InvalidState"
      [] op \in {"finish_bind", "finish_connect", "finish_listen"} -> "NotInProgress"

\* C10 as stated: a lifecycle operation called, with whatever argument and
\* verdict of the network capability, in a state the table does not let it
\* start from returns the table's error for that state and leaves the state
\* and the backend as they were.
C10_AsStated ==
    (last.op \in LifecycleOps /\ Before # TableFrom(last.op)) =>
        /\ last.res = TableError(last.op, Before)
        /\ StateKept /\ BackendKept

\* C10, amended: a lifecycle operation called in a state the table does not
\* let it start from leaves the state and the backend as they were; when
\* the network capability allows the call it returns ConcurrencyConflict if
\* it is start_listen in ListenStarted, and the table's error for that state
\* otherwise.  (start_bind and start_connect ask the capability before they
\* look at the state: a call it denies returns the capability's error.)
C10_DisallowedState ==
    (last.op \in LifecycleOps /\ Before # TableFrom(last.op)) =>
        /\ last.verdict = "Allow" =>
              last.res = IF last.op = "start_listen" /\ Before = "ListenStarted"
                         THEN "ConcurrencyConflict"
                         ELSE TableError(last.op, Before)
        /\ StateKept /\ BackendKept

\* A start_bind the network capability denied, called in Bound, returned
\* another error than the table's and left the state and the backend as
\* they were.
C10_Witness ==
    /\ last.op = "start_bind" /\ Before = "Bound"
    /\ last.verdict # "Allow" /\ last.res # TableError(last.op, Before)
    /\ StateKept /\ BackendKept

\* The operations that call the OS on the socket's handle once their state
\* check has passed.
OsCallOps == {"start_bind", "start_connect", "start_listen", "accept", "shutdown"}

\* C11: when start_bind, start_connect, start_listen, accept or shutdown is
\* called in a state it does not start from, the call is rejected before any
\* OS call: it returns an error, has issued no system call, and the OS state
\* of the handle is as the call found it.
C11_StateCheckFirst ==
    (last.op \in OsCallOps /\ Before # TableFrom(last.op)) =>
        /\ last.res \notin {"Ok", "Trap"}
        /\ last.sys = <<>>
        /\ os[last.pre.inner.stream] = last.pre_os

\* A shutdown called while the connect was in progress at the OS was
\* rejected with no system call issued.
C11_Witness ==
    /\ last.op = "shutdown" /\ Before = "Connecting"
    /\ last.pre_os.conn = "inprogress"
    /\ last.res = "ConcurrencyConflict" /\ last.sys = <<>>

\* C12: every start_bind and start_connect asks the network capability about
\* the address before it reaches the backend: a call that issued a system
\* call or changed the socket was allowed, and a call whose address the
\* capability denies returns AccessDenied, issues no system call and leaves
\* the state and the backend as they were.
C12_AddressCheckFirst ==
    last.op \in {"start_bind", "start_connect"} =>
        /\ (last.sys # <<>> \/ ~StateKept \/ ~BackendKept) => last.verdict = "Allow"
        /\ last.verdict = "DenyAddr" =>
              /\ last.res = "AccessDenied"
              /\ last.sys = <<>>
              /\ StateKept /\ BackendKept

\* A start_bind on a socket in Default, which the state check lets through,
\* was denied its address and returned AccessDenied with nothing changed.
C12_Witness ==
    /\ last.op = "start_bind" /\ Before = "Default"
    /\ last.verdict = "DenyAddr" /\ last.res = "AccessDenied"
    /\ last.sys = <<>> /\ StateKept /\ BackendKept

\* The latest call passed an address on to the backend: the capability
\* allowed it and the state check let it through.
AddressRead == last.addr # NoAddr

\* The remote addresses C13 names: port 0, or an IP that is unspecified
\* once an IPv4-mapped IPv6 address is read as the IPv4 address it maps.
UnspecifiedOrPortZero(addr) ==
    \/ addr.port = 0
    \/ addr.ip \in {<<0, 0, 0, 0>>, <<0, 0, 0, 0, 0, 0, 0, 0>>, <<0, 0, 0, 0, 0, 65535, 0, 0>>}

\* C13: the remote addresses validate_remote_address fails are those that
\* are unspecified (as such or as IPv4-mapped) or have port 0, and a
\* start_connect that passes such an address to the backend returns
\* InvalidArgument, issues no system call and leaves the socket in the state
\* it was in, not in Connecting, with its backend as it was.
C13_RemoteAddress ==
    (last.op = "start_connect" /\ AddressRead) =>
        /\ (validate_remote_address(last.addr) # "Ok") = UnspecifiedOrPortZero(last.addr)
        /\ UnspecifiedOrPortZero(last.addr) =>
              /\ last.res = "InvalidArgument"
              /\ last.sys = <<>>
              /\ StateKept /\ BackendKept
              /\ After # "Connecting"

\* A start_connect to 127.0.0.1:0, an address of the socket's family that is
\* unicast and specified, returned InvalidArgument and left the socket in
\* Default.
C13_Witness ==
    /\ last.op = "start_connect" /\ last.addr = V4(127, 0, 0, 1, 0)
    /\ last.pre.inner.family = "V4"
    /\ last.res = "InvalidArgument" /\ last.sys = <<>>
    /\ Before = "Default" /\ After = "Default"

\* The addresses C14 lets a socket of the family take: V4 on a V4 socket; on
\* a V6 socket a V6 address that is neither IPv4-compatible (its high 96
\* bits zero, but not :: and not ::1) nor IPv4-mapped (::ffff:a.b.c.d).
FamilyMatches(addr, family) ==
    \/ family = "V4" /\ addr.v = "V4"
    \/ /\ family = "V6" /\ addr.v = "V6"
       /\ ~ /\ \A i \in 1..6 : addr.ip[i] = 0
            /\ addr.ip # <<0, 0, 0, 0, 0, 0, 0, 0>>
            /\ addr.ip # <<0, 0, 0, 0, 0, 0, 0, 1>>
       /\ ~ /\ \A i \in 1..5 : addr.ip[i] = 0
            /\ addr.ip[6] = 65535

\* C14: a start_bind or start_connect that passes an address to the backend
\* succeeds, or reaches the OS at all, only when the address matches the
\* socket's family; with any other address it returns InvalidArgument,
\* issues no system call and leaves the state and the backend as they were.
C14_AddressFamily ==
    (last.op \in {"start_bind", "start_connect"} /\ AddressRead) =>
        /\ (last.res = "Ok" \/ last.sys # <<>>) =>
              FamilyMatches(last.addr, last.pre.inner.family)
        /\ ~FamilyMatches(last.addr, last.pre.inner.family) =>
              /\ last.res = "InvalidArgument"
              /\ last.sys = <<>>
              /\ StateKept /\ BackendKept

\* A start_bind of the IPv4-mapped ::ffff:127.0.0.1 port 80 on a V6 socket
\* returned InvalidArgument and left the socket in Default.
C14_Witness ==
    /\ last.op = "start_bind" /\ last.pre.inner.family = "V6"
    /\ last.addr = V6(<<0, 0, 0, 0, 0, 65535, 32512, 1>>, 80)
    /\ last.res = "InvalidArgument" /\ last.sys = <<>>
    /\ Before = "Default" /\ After = "Default"

\* The latest call is a poll of the socket's `ready` future; what it found.
ReadyPolled == last.op = "ready"
NothingInProgress ==
    \/ Before \in {"Default", "BindStarted", "Bound", "ListenStarted", "Connected"}
    \/ Before = "Listening" /\ last.pre.tcp_state.pending_result.tag = "Some"
ConnectInProgress == Before = "Connecting" /\ last.pre.tcp_state.future.tag = "Pending"
AcceptAwaited == Before = "Listening" /\ last.pre.tcp_state.pending_result.tag = "None"

\* What C15 says of one poll of `ready`: with nothing in progress it
\* completes at once and changes nothing; in Connecting it completes exactly
\* when the connect future has resolved; awaiting an accept in Listening it
\* completes exactly when an accept attempt gave a result, which is then the
\* pending_result.
ReadyCompletes ==
    ReadyPolled =>
        /\ NothingInProgress => last.res = "Ready" /\ StateKept /\ BackendKept
        /\ Before = "Connecting" =>
              /\ After = "Connecting"
              /\ (last.res = "Ready") = (table[last.this].tcp_state.future.tag = "Ready")
              /\ ConnectInProgress /\ last.res = "Ready" => "getsockopt" \in Range(last.sys)
        /\ AcceptAwaited =>
              /\ After = "Listening"
              /\ (last.res = "Ready") = (table[last.this].tcp_state.pending_result.tag = "Some")
              /\ last.res = "Ready" => "accept" \in Range(last.sys)

\* A step that is a finish_connect or an accept on the socket whose `ready`
\* future completed in the step before.
RightAfterReady ==
    /\ ReadyPolled /\ last.res = "Ready"
    /\ last'.op \in {"finish_connect", "accept"} /\ last'.this = last.this

\* C15 as stated: a poll of `ready` completes as described, and a
\* finish_connect or accept issued right after `ready` completed never
\* returns WouldBlock.
C15_AsStated ==
    [][/\ ReadyCompletes'
       /\ RightAfterReady => last'.res # "WouldBlock"]_vars

\* C15, amended: a poll of `ready` completes as described; a finish_connect
\* issued right after `ready` completed never returns WouldBlock, and an
\* accept issued right after it returns the stored result, which is
\* WouldBlock only when the stored result is the error EINTR that the
\* Windows build makes of the OS accept's WSAEINPROGRESS.
C15_Ready ==
    [][/\ ReadyCompletes'
       /\ RightAfterReady =>
             \/ last'.res # "WouldBlock"
             \/ /\ last'.op = "accept" /\ target_os = "windows"
                /\ last.pre.tcp_state.tag = "Listening"
                /\ table[last.this].tcp_state.pending_result = Some(Err(OsError("EINTR")))]_vars

\* A poll of `ready` on a listening socket with no pending result completed
\* on Windows by storing the EINTR made of the accept's WSAEINPROGRESS.
C15_Witness ==
    /\ ReadyPolled /\ AcceptAwaited /\ last.res = "Ready"
    /\ target_os = "windows"
    /\ table[last.this].tcp_state.pending_result = Some(Err(OsError("EINTR")))

\* The handle of the latest call: the socket's, or the stream's.
CallHandle == last.pre.inner.stream

\* C16: a handle is open exactly as long as a socket resource, a reader or
\* a writer holds it (or a result a socket's state owns); a drop of the
\* socket resource closes the handle of the accepted client its pending
\* result owned and discards the streams its connect future owned, but
\* leaves the handle open and as it was while a reader or writer of it is
\* alive, and every use of a reader or writer finds its handle open.
C16_LastHolderCloses ==
    /\ \A h \in Handles : os[h].open = Held(h, table, streams)
    /\ last.op = "drop" =>
          /\ last.this \notin DOMAIN table
          /\ PendingClient(last.pre) # 0 => ~os[PendingClient(last.pre)].open
          /\ streams[CallHandle].reader # "held" /\ streams[CallHandle].writer # "held"
          /\ (streams[CallHandle].reader = "live" \/ streams[CallHandle].writer = "live") =>
                os[CallHandle].open /\ os[CallHandle] = last.pre_os
    /\ last.op \in {"poll_read", "poll_write"} => last.pre_os.open /\ last.res # "EBADF"

\* The socket resource of an established connection was dropped while its
\* reader and writer were alive: the handle is still open and connected and
\* no socket resource holds it.
C16_Witness ==
    /\ last.op = "drop" /\ Before = "Connected"
    /\ BothLive(CallHandle)
    /\ os[CallHandle].open /\ os[CallHandle].conn = "established"
    /\ \A s \in DOMAIN table : table[s].inner.stream # CallHandle

\* The calls on a reader or a writer that C17 names.
StreamHalfOps == {"drop_reader", "drop_writer", "poll_shutdown"}

\* C17: the OS shutdown is called, and a side of a handle shut down, only
\* by a shutdown operation on a socket in Connected; dropping the reader,
\* dropping the writer or the writer's poll_shutdown issues no system call
\* and leaves the other half and, while anyone holds the handle, the OS
\* state of the handle as they were; a write on a writer is refused only if
\* a shutdown operation shut the write side down.
C17_OnlyExplicitShutdown ==
    [][/\ \A h \in Handles :
             (os'[h].open /\ os'[h].shut # os[h].shut) =>
                 /\ last'.op = "shutdown" /\ last'.res = "Ok"
                 /\ last'.pre.tcp_state.tag = "Connected"
                 /\ last'.pre.inner.stream = h
       /\ "shutdown" \in Range(last'.sys) =>
             last'.op = "shutdown" /\ last'.pre.tcp_state.tag = "Connected"
       /\ last'.op \in StreamHalfOps =>
             LET h == last'.pre.inner.stream
             IN  /\ last'.sys = <<>> /\ last'.res = "Ok"
                 /\ last'.op # "drop_reader" => streams'[h].reader = streams[h].reader
                 /\ last'.op # "drop_writer" => streams'[h].writer = streams[h].writer
                 /\ Held(h, table', streams') => os'[h] = os[h]
                 /\ table' = table
       /\ (last'.op = "poll_write" /\ last'.res # "Ok") =>
             last'.pre_os.shut \in {"write", "both"}]_vars

\* The reader of an established connection was dropped, and the writer is
\* alive on a handle that is open and not shut down.
C17_Witness ==
    /\ last.op = "drop_reader"
    /\ streams[CallHandle] = [reader |-> "none", writer |-> "live"]
    /\ os[CallHandle].open /\ os[CallHandle].conn = "established"
    /\ os[CallHandle].shut = "none"

\* The socket resources that are there before and after a step.
Staying == DOMAIN table \cap DOMAIN table'

\* C18: a call on one socket leaves every other socket resource, and the OS
\* state of its handle, as they were, so no call on a listener (accept, an
\* option set, drop) changes a socket it accepted and no call on an accepted
\* socket (shutdown, drop) changes the listener or its pending result; and
\* whatever is called, a socket in Listening stays in Listening and a
\* socket in Connected stays in Connected while it exists.
C18_ChildIndependent ==
    [][/\ last'.op # "none" =>
             \A s \in Staying \ {last'.this} :
                 /\ table'[s] = table[s]
                 /\ os'[table[s].inner.stream] = os[table[s].inner.stream]
       /\ \A s \in Staying :
             table[s].tcp_state.tag \in {"Listening", "Connected"} =>
                 table'[s].tcp_state.tag = table[s].tcp_state.tag]_vars

\* A shutdown on an accepted socket succeeded while its listener, whose
\* hop limit had been set to 1 after the accept, is in Listening: the
\* accepted socket is Connected with the hop limit it was accepted with.
C18_Witness ==
    /\ last.op = "shutdown" /\ last.res = "Ok" /\ Before = "Connected"
    /\ os[CallHandle].ip_ttl = 64 /\ os[CallHandle].ipv6_unicast_hops = 64
    /\ \E s \in DOMAIN table \ {last.this} :
          /\ table[s].tcp_state.tag = "Listening"
          /\ 1 \in {os[table[s].inner.stream].ip_ttl, os[table[s].inner.stream].ipv6_unicast_hops}

\* The calls that start or finish a step of the lifecycle.
StartFinishOps ==
    {"start_bind", "finish_bind", "start_connect", "finish_connect",
     "start_listen", "finish_listen"}

\* C19: the state a socket resource is in changes only in a start_* or
\* finish_* call on that socket; a step of the OS or the reactor changes no
\* socket resource; a poll of `ready` changes nothing but the state of its
\* own socket, and that only by filling an empty pending_result in Listening
\* or by resolving the pending connect future in Connecting.
C19_OnlyGuestCalls ==
    [][/\ \A s \in Staying :
             table'[s].tcp_state.tag # table[s].tcp_state.tag =>
                 last'.op \in StartFinishOps /\ last'.this = s
       /\ last'.op = "none" => table' = table
       /\ last'.op = "ready" =>
             LET s == last'.this
                 old == table[s].tcp_state
                 new == table'[s].tcp_state
             IN  /\ DOMAIN table' = DOMAIN table
                 /\ \A t \in DOMAIN table \ {s} : table'[t] = table[t]
                 /\ table'[s].inner = table[s].inner
                 /\ new # old =>
                       \/ /\ old = Listening(None)
                          /\ new.tag = "Listening" /\ new.pending_result.tag = "Some"
                       \/ /\ old = Connecting(Pending)
                          /\ new.tag = "Connecting" /\ new.future.tag = "Ready"]_vars

\* The OS reported a connect in progress as established, and the socket is
\* still in Connecting with its future unresolved.
C19_Witness ==
    /\ last.op = "none"
    /\ \E s \in DOMAIN table :
          /\ table[s].tcp_state = Connecting(Pending)
          /\ os[table[s].inner.stream].conn = "established"

\* What hop_limit reads for a socket: IP_TTL of a V4 socket's handle,
\* IPV6_UNICAST_HOPS of a V6 socket's.
HopOf(tbl, osf, s) ==
    IF tbl[s].inner.family = "V4" THEN osf[tbl[s].inner.stream].ip_ttl
    ELSE osf[tbl[s].inner.stream].ipv6_unicast_hops

\* C20: set_hop_limit(0) returns InvalidArgument, on V4 and V6 sockets,
\* without a system call and leaves the socket, with the copy it recorded,
\* and the OS options as they were; a set_hop_limit that succeeds had a
\* value above 0, which is the hop limit from then on; hop_limit returns the
\* hop limit and changes nothing; and the hop limit and the recorded copy of
\* a socket change only in a set_hop_limit on it that succeeds.
C20_HopLimit ==
    [][/\ (last'.op = "set_hop_limit" /\ last'.value = 0) =>
             /\ last'.res = "InvalidArgument" /\ last'.sys = <<>>
             /\ table' = table /\ os' = os
       /\ (last'.op = "set_hop_limit" /\ last'.res = "Ok") =>
             /\ last'.value > 0
             /\ HopOf(table', os', last'.this) = last'.value
       /\ last'.op = "hop_limit" =>
             /\ last'.res = "Ok" /\ last'.value = HopOf(table, os, last'.this)
             /\ table' = table /\ os' = os
       /\ \A s \in Staying :
             (\/ HopOf(table', os', s) # HopOf(table, os, s)
              \/ table'[s].inner.hop_limit # table[s].inner.hop_limit) =>
                 last'.op = "set_hop_limit" /\ last'.this = s /\ last'.res = "Ok"]_vars

\* On macOS a set_hop_limit(0) returned InvalidArgument on a V6 socket whose
\* hop limit had been set to 1: the hop limit and the recorded copy are
\* still 1.
C20_Witness ==
    /\ last.op = "set_hop_limit" /\ last.value = 0 /\ last.res = "InvalidArgument"
    /\ target_os = "macos" /\ last.pre.inner.family = "V6"
    /\ last.pre_os.ipv6_unicast_hops = 1
    /\ HopOf(table, os, last.this) = 1
    /\ table[last.this].inner.hop_limit = Some(1)

\* The setters that reject zero, and the latest call being one of them
\* with zero passed.
ZeroRejecting ==
    {"set_keep_alive_idle_time", "set_keep_alive_interval", "set_keep_alive_count",
     "set_send_buffer_size", "set_receive_buffer_size", "set_listen_backlog_size"}
ZeroPassed == last.op \in ZeroRejecting /\ last.arg = <<0, 0, 0>>

\* C21: passing 0 to set_keep_alive_idle_time, set_keep_alive_interval,
\* set_keep_alive_count, set_send_buffer_size, set_receive_buffer_size or
\* set_listen_backlog_size returns InvalidArgument whatever state the socket
\* is in, with no system call issued and nothing handed to the OS, and
\* leaves the socket's state, its backend object (the stored backlog, the
\* copies of the values set) and the options of its handle as they were.
C21_ZeroRejected ==
    ZeroPassed =>
        /\ last.res = "InvalidArgument"
        /\ last.sys = <<>>
        /\ last.sent = <<>>
        /\ StateKept
        /\ BackendKept

\* Zero was passed for the receive buffer size of a connecting socket of
\* the macOS build that had a size set before.
C21_Witness ==
    /\ ZeroPassed
    /\ last.op = "set_receive_buffer_size"
    /\ target_os = "macos"
    /\ Before = "Connecting"
    /\ last.pre.inner.receive_buffer_size # None
    /\ last.pre_os.so_rcvbuf # 0

\* C22: the stored listen backlog of every socket is within [1, i32::MAX]:
\* it is 128 on a socket just created and on an accepted child, and stays
\* in the range whatever u64 set_listen_backlog_size is called with (a
\* value above i32::MAX is stored as i32::MAX, 0 is rejected); and the
\* backlog a start_listen hands to the OS listen call is the value stored
\* when the call is made.
C22_BacklogRange ==
    /\ \A s \in DOMAIN table :
           /\ table[s].inner.listen_backlog_size >= 1
           /\ table[s].inner.listen_backlog_size <= 2147483647
    /\ last.op = "create_tcp_socket" /\ last.res = "Ok" =>
           table[last.this].inner.listen_backlog_size = 128
    /\ last.op = "accept" /\ last.res = "Ok" =>
           table[last.child].inner.listen_backlog_size = 128
    /\ last.op = "set_listen_backlog_size" /\ last.res = "Ok" =>
           table[last.this].inner.listen_backlog_size =
               IF last.arg[3] > 0 \/ last.arg[2] > 2
                  \/ (last.arg[2] = 2 /\ last.arg[1] > 147483647)
               THEN 2147483647
               ELSE last.arg[2] * 1000000000 + last.arg[1]
    /\ last.op = "start_listen" /\ last.sys # <<>> =>
           last.sent = <<last.pre.inner.listen_backlog_size>>

\* A child was accepted from a listener that had asked the OS for, and
\* stored, a backlog of i32::MAX after u64::MAX was passed.
C22_Witness ==
    /\ last.op = "accept" /\ last.res = "Ok"
    /\ last.pre.inner.listen_backlog_size = 2147483647
    /\ last.pre_os.backlog = 2147483647

\* The latest call being set_listen_backlog_size with a nonzero value, and
\* the backlog that value stands for: the value itself up to i32::MAX.
BacklogPassed == last.op = "set_listen_backlog_size" /\ last.arg # <<0, 0, 0>>
AsBacklog(arg) ==
    IF arg[3] = 0 /\ (arg[2] < 2 \/ (arg[2] = 2 /\ arg[1] <= 147483647))
    THEN arg[2] * 1000000000 + arg[1]
    ELSE 2147483647

\* C23: set_listen_backlog_size with a nonzero value on a socket that is
\* already listening asks the OS to listen again; when that fails, whatever
\* the error of the OS, the call returns NotSupported and leaves the stored
\* backlog, with the rest of the backend, as it was.  On a socket not yet
\* listening the value is stored and no system call is issued.
C23_RelistenFails ==
    /\ BacklogPassed /\ last.pre.inner.is_listening =>
           /\ last.sys = <<"listen">>
           /\ last.res \in {"Ok", "NotSupported"}
           /\ last.res = "NotSupported" => BackendKept
    /\ BacklogPassed /\ ~last.pre.inner.is_listening =>
           /\ last.res = "Ok"
           /\ last.sys = <<>>
           /\ table[last.this].inner.listen_backlog_size = AsBacklog(last.arg)
           /\ os[last.pre.inner.stream] = last.pre_os

\* The OS refused the new backlog of a listening socket: the call returned
\* NotSupported and the backlog stored is still another than the one asked
\* for.
C23_Witness ==
    /\ BacklogPassed
    /\ Before = "Listening"
    /\ last.res = "NotSupported"
    /\ last.pre.inner.listen_backlog_size # AsBacklog(last.arg)

\* C24 as stated: when the OS refuses the new backlog of a listening
\* socket, the error is reported as NotSupported and the stored backlog is
\* nevertheless overwritten with the new value.
C24_AsStated ==
    BacklogPassed /\ last.pre.inner.is_listening /\ last.res # "Ok" =>
        /\ last.res = "NotSupported"
        /\ table[last.this].inner.listen_backlog_size = AsBacklog(last.arg)

\* C24: when the OS refuses the new backlog of a listening socket, the
\* error is reported as NotSupported and the stored backlog keeps the value
\* it had: the assignment comes after the `?` on the listen call.
C24_StoredKept ==
    BacklogPassed /\ last.pre.inner.is_listening /\ last.res # "Ok" =>
        /\ last.res = "NotSupported"
        /\ table[last.this].inner.listen_backlog_size = last.pre.inner.listen_backlog_size

\* The OS refused a backlog of 1 for a socket in ListenStarted that stores
\* the default of 128.
C24_Witness ==
    /\ BacklogPassed
    /\ Before = "ListenStarted"
    /\ last.res # "Ok"
    /\ last.arg = <<1, 0, 0>>
    /\ last.pre.inner.listen_backlog_size = 128

\* The latest call being a setter of the given ones with a nonzero value.
NonzeroPassed(ops) == last.op \in ops /\ last.arg # <<0, 0, 0>>

\* C25: for every nonzero input the option setters hand the OS a value
\* clamped into a fixed range.  A keep-alive idle time or interval (passed
\* in nanoseconds) goes out as a Duration within [1 s, 32767 s]: 1 s for
\* less than a second, 32767 s for more than that, else as passed.  A
\* keep-alive count goes out within [1, 127], and a send or receive buffer
\* size within [1, i32::MAX], a u64 above the range as i32::MAX.
C25_Clamped ==
    /\ NonzeroPassed({"set_keep_alive_idle_time", "set_keep_alive_interval"}) =>
           /\ Len(last.sent) = 2
           /\ last.sent[1] >= 1 /\ last.sent[1] <= 32767
           /\ last.sent[1] = 32767 => last.sent[2] = 0
           /\ last.sent =
                  IF last.arg[3] = 0 /\ last.arg[2] = 0 THEN <<1, 0>>
                  ELSE IF last.arg[3] > 0 \/ last.arg[2] >= 32767 THEN <<32767, 0>>
                  ELSE <<last.arg[2], last.arg[1]>>
    /\ NonzeroPassed({"set_keep_alive_count"}) =>
           /\ Len(last.sent) = 1
           /\ last.sent[1] >= 1 /\ last.sent[1] <= 127
           /\ last.sent[1] =
                  IF last.arg[3] > 0 \/ last.arg[2] > 0 \/ last.arg[1] > 127 THEN 127
                  ELSE last.arg[1]
    /\ NonzeroPassed({"set_send_buffer_size", "set_receive_buffer_size"}) =>
           /\ Len(last.sent) = 1
           /\ last.sent[1] >= 1 /\ last.sent[1] <= 2147483647
           /\ last.sent[1] =
                  IF last.arg[3] > 0 \/ last.arg[2] > 2
                     \/ (last.arg[2] = 2 /\ last.arg[1] > 147483647)
                  THEN 2147483647
                  ELSE last.arg[2] * 1000000000 + last.arg[1]

\* One nanosecond was passed as the keep-alive interval, and the OS has
\* taken one second.
C25_Witness ==
    /\ last.op = "set_keep_alive_interval"
    /\ last.arg = <<1, 0, 0>>
    /\ last.res = "Ok"
    /\ os[last.pre.inner.stream].tcp_keepintvl = <<1, 0>>

\* C26: when the OS rejects a send or receive buffer size with ENOBUFS,
\* set_send_buffer_size / set_receive_buffer_size report success to the
\* guest; any other error of the OS is returned, as the code of the error
\* taxonomy it maps to.
C26_NoBufsSwallowed ==
    NonzeroPassed({"set_send_buffer_size", "set_receive_buffer_size"}) =>
        /\ last.sys = <<"setsockopt">>
        /\ last.answer \in {"Ok", "ENOBUFS"} => last.res = "Ok"
        /\ last.answer = "ENOPROTOOPT" => last.res = "NotSupported"
        /\ last.answer = "EINVAL" => last.res = "InvalidArgument"

\* The OS had no room for the send buffer size asked for: the call
\* succeeded and the handle's SO_SNDBUF is as it was.
C26_Witness ==
    /\ NonzeroPassed({"set_send_buffer_size"})
    /\ last.answer = "ENOBUFS"
    /\ last.res = "Ok"
    /\ os[last.pre.inner.stream].so_sndbuf = last.pre_os.so_sndbuf

\* The error codes the socket operations return, and the latest step being the
\* conversion of an I/O error: the error, its native errno if it has one,
\* and its kind if it has none.
ErrorCodes ==
    {"Unknown", "AccessDenied", "NotSupported", "InvalidArgument", "OutOfMemory", "Timeout",
     "ConcurrencyConflict", "NotInProgress", "WouldBlock", "InvalidState", "NewSocketLimit",
     "AddressNotBindable", "AddressInUse", "RemoteUnreachable", "ConnectionRefused",
     "ConnectionReset", "ConnectionAborted", "DatagramTooLarge"}
Converted == last.op = "ErrorCode::from"
ErrnoIn(errnos) == Converted /\ last.err.errno \in errnos
BareKindIn(kinds) == Converted /\ last.err.errno = "NONE" /\ last.err.kind \in kinds

\* C27: every I/O error is mapped to one code of the closed taxonomy, the
\* native errno, when the error has one, deciding before the kind: EINTR,
\* EAGAIN and EWOULDBLOCK, and kind Interrupted, map to WouldBlock on every
\* target, EALREADY to ConcurrencyConflict, EISCONN, ENOTCONN and
\* EDESTADDRREQ to InvalidState, EMFILE and ENFILE to NewSocketLimit; an
\* errno the errno table does not name maps to Unknown even when the error's
\* kind is one the kind table names (ENOSYS, of kind Unsupported), an errno
\* it names maps as the table says even when the kind is not in the kind
\* table (EHOSTUNREACH), and an error without errno whose kind the kind
\* table does not name maps to Unknown.
C27_ErrorMapping ==
    /\ Converted => last.res \in ErrorCodes
    /\ ErrnoIn({"EINTR", "EAGAIN", "EWOULDBLOCK"}) => last.res = "WouldBlock"
    /\ BareKindIn({"Interrupted", "WouldBlock"}) => last.res = "WouldBlock"
    /\ ErrnoIn({"EALREADY"}) => last.res = "ConcurrencyConflict"
    /\ ErrnoIn({"EISCONN", "ENOTCONN", "EDESTADDRREQ"}) => last.res = "InvalidState"
    /\ ErrnoIn({"EMFILE", "ENFILE"}) => last.res = "NewSocketLimit"
    /\ ErrnoIn({"EINPROGRESS", "ENETRESET", "EBADF", "EPIPE", "ENOSYS"}) => last.res = "Unknown"
    /\ ErrnoIn({"EHOSTUNREACH"}) => last.res = "RemoteUnreachable"
    /\ BareKindIn({"Other", "BrokenPipe", "UnexpectedEof", "HostUnreachable", "NotFound"}) =>
           last.res = "Unknown"

\* An error made from ENOSYS was converted: its kind, Unsupported, is in the
\* kind table, its errno is not in the errno table.
C27_Witness ==
    /\ ErrnoIn({"ENOSYS"})
    /\ last.err.kind = "Unsupported"
    /\ last.res = "Unknown"

\* A reader and a writer of handle fd are stream resources of the guest.
Pair(fd) == streams[fd] = [reader |-> "live", writer |-> "live"]

\* C28: the loopback scenario can be run with every step succeeding.  Each
\* step can succeed where the steps before it have (the connect future and
\* the accept being helped by an OS that has completed the connect and
\* queued the connection), and the steps end as said: a finish_connect
\* that succeeds leaves its socket Connected with a reader and a writer,
\* and an accept that succeeds leaves the listener Listening and the
\* connected socket as it was, and yields a child on a handle of its own,
\* Connected, with a reader and a writer of its own.
C28_Loopback ==
    /\ table = <<>> =>
           ENABLED (create_tcp_socket("V4", "Ok") /\ last'.res = "Ok")
    /\ 1 \in DOMAIN table /\ table[1].tcp_state.tag = "Default" /\ ~Trapped =>
           ENABLED (start_bind(1, "Allow") /\ last'.res = "Ok")
    /\ 1 \in DOMAIN table /\ table[1].tcp_state.tag = "BindStarted" /\ ~Trapped =>
           ENABLED (finish_bind(1) /\ last'.res = "Ok")
    /\ 1 \in DOMAIN table /\ table[1].tcp_state.tag = "Bound" /\ ~Trapped =>
           ENABLED (start_listen(1) /\ last'.res = "Ok")
    /\ 1 \in DOMAIN table /\ table[1].tcp_state.tag = "ListenStarted" /\ ~Trapped =>
           ENABLED (finish_listen(1) /\ last'.res = "Ok")
    /\ ListenerUp /\ DOMAIN table = {1} /\ ~Trapped =>
           ENABLED (create_tcp_socket("V4", "Ok") /\ last'.res = "Ok")
    /\ 2 \in DOMAIN table /\ table[2].tcp_state.tag = "Default" /\ ~Trapped =>
           ENABLED (start_connect(2, "Allow") /\ last'.res = "Ok")
    /\ 2 \in DOMAIN table /\ table[2].tcp_state.tag = "Connecting" /\ ~Trapped =>
           ENABLED (ready(2) \/ os_connect_completes(table[2].inner.stream, "established"))
    /\ /\ 2 \in DOMAIN table /\ table[2].tcp_state.tag = "Connecting" /\ ~Trapped
       /\ os[table[2].inner.stream].conn = "established"
       => ENABLED (finish_connect(2) /\ last'.res = "Ok")
    /\ /\ ListenerUp /\ ClientUp /\ ~Trapped
       /\ os[table[1].inner.stream].acceptq > 0 /\ os[table[1].inner.stream].readable
       /\ DOMAIN table = {1, 2}
       => ENABLED (accept(1) /\ last'.res = "Ok")
    /\ last.op = "finish_connect" /\ last.res = "Ok" =>
           /\ After = "Connected"
           /\ Pair(last.pre.inner.stream)
    /\ last.op = "accept" /\ last.res = "Ok" =>
           /\ After = "Listening"
           /\ table[last.child].tcp_state.tag = "Connected"
           /\ table[last.child].inner.stream \notin
                  {table[1].inner.stream, table[2].inner.stream}
           /\ Pair(table[last.child].inner.stream)
           /\ ClientUp /\ Pair(table[2].inner.stream)

\* The end of the scenario: the accept on the listener has just succeeded,
\* the second socket is Connected with its reader and writer, and the
\* child is Connected with its own.
C28_Witness ==
    /\ last.op = "accept" /\ last.res = "Ok" /\ last.this = 1
    /\ ListenerUp /\ ClientUp
    /\ Pair(table[2].inner.stream)
    /\ last.child = 3
    /\ table[3].tcp_state.tag = "Connected"
    /\ Pair(table[3].inner.stream)

\* The connect of the socket of the latest call had not resolved when the
\* call was made: its future was still to be polled and the OS had the
\* connect in progress.
Unresolved ==
    /\ Before = "Connecting"
    /\ last.pre.tcp_state.future.tag = "Pending"
    /\ last.pre_os.conn = "inprogress"

\* The latest call found a listener with no pending result and nothing to
\* accept: no connection queued, or none the reactor has reported.
NothingToAccept ==
    /\ Before = "Listening"
    /\ last.pre.tcp_state.pending_result.tag = "None"
    /\ (last.pre_os.acceptq = 0 \/ ~last.pre_os.readable)

\* C29: finish_bind, finish_connect, finish_listen and accept say "try
\* again" through WouldBlock: finish_connect returns WouldBlock exactly when
\* the socket is Connecting and its connect has not resolved, accept
\* returns WouldBlock when the socket is Listening with nothing pending and
\* nothing ready, and a call of the four that returns WouldBlock leaves the
\* socket in the state it was in.
C29_WouldBlock ==
    /\ last.op = "finish_connect" => (last.res = "WouldBlock" <=> Unresolved)
    /\ last.op = "accept" /\ NothingToAccept => last.res = "WouldBlock"
    /\ /\ last.op \in {"finish_bind", "finish_connect", "finish_listen", "accept"}
       /\ last.res = "WouldBlock"
       => After = Before

\* finish_connect found the connect unresolved and returned WouldBlock;
\* the socket is still Connecting.
C29_Witness ==
    /\ last.op = "finish_connect"
    /\ Unresolved
    /\ last.res = "WouldBlock"
    /\ After = "Connecting"

\* The latest call was a start_connect that passed the capability and the
\* state check and whose connect failed at once: the OS connect call
\* answered with an error other than the one that says "in progress".
ImmediateFailure ==
    /\ last.op = "start_connect"
    /\ last.verdict = "Allow"
    /\ Before = "Default"
    /\ last.sys = <<"connect">>
    /\ last.answer \notin {"Ok", IF target_os = "windows" THEN "EWOULDBLOCK" ELSE "EINPROGRESS"}

\* C30 as stated: when a connect fails immediately, start_connect still
\* moves the socket to Connecting, with the error held in that state for
\* the next finish_connect to report.
C30_AsStated ==
    ImmediateFailure =>
        /\ After = "Connecting"
        /\ table[last.this].tcp_state.future.tag = "Ready"
        /\ table[last.this].tcp_state.future.result.tag = "Err"

\* C30: when a connect fails immediately, start_connect returns the error
\* itself and leaves the socket in Default, so that no error is held for
\* finish_connect; a start_connect that moves the socket to Connecting has
\* returned success, and what Connecting then holds is a completion still
\* pending or a success already available.
C30_ReturnedAtOnce ==
    /\ ImmediateFailure =>
           /\ last.res \notin {"Ok", "Trap"}
           /\ After = "Default"
           /\ StateKept
    /\ last.op = "start_connect" /\ Before = "Default" /\ After = "Connecting" =>
           /\ last.res = "Ok"
           /\ table[last.this].tcp_state.future \in {Pending, Ready(IoOk)}

\* The OS refused the connect at once with ENETUNREACH: start_connect
\* returned RemoteUnreachable and the socket is in Default.
C30_Witness ==
    /\ ImmediateFailure
    /\ last.answer = "ENETUNREACH"
    /\ last.res = "RemoteUnreachable"
    /\ After = "Default"

\* The latest call was an accept that found the listener holding a pending
\* result.
AcceptFoundPending ==
    /\ last.op = "accept"
    /\ Before = "Listening"
    /\ last.pre.tcp_state.pending_result.tag = "Some"

\* The handles of the socket resources, one entry per resource, and of the
\* accepted clients held in pending results.
HandleOwners ==
    {<<"socket", s>> : s \in DOMAIN table}
        \cup {<<"pending", s>> : s \in {t \in DOMAIN table : PendingClient(table[t]) # 0}}
HandleOf(owner) ==
    IF owner[1] = "socket" THEN table[owner[2]].inner.stream
    ELSE PendingClient(table[owner[2]])

\* C31: an accept that finds a pending result issues no system call, leaves
\* the listener in Listening with no pending result, and returns what was
\* pending: the code of the error, or the pre-fetched client as a new socket
\* resource (unless the resource table has no room, which ends the guest);
\* an accept issues the OS accept call only when nothing was pending.  A
\* pre-fetched client is delivered once: no two socket resources, and no
\* socket resource and pending result, hold the same handle.
C31_PendingConsumedOnce ==
    /\ AcceptFoundPending =>
          /\ last.sys = <<>>
          /\ table[last.this].tcp_state = [tag |-> "Listening", pending_result |-> None]
          /\ LET pending == last.pre.tcp_state.pending_result.result
             IN  IF pending.tag = "Err"
                 THEN /\ last.res = IoErrorToErrorCode(pending.err, target_os)
                      /\ last.child = 0
                 ELSE /\ last.res \in {"Ok", "Trap"}
                      /\ last.res = "Ok" =>
                            /\ last.child \in DOMAIN table
                            /\ table[last.child].inner = pending.client
    /\ last.op = "accept" /\ last.sys # <<>> =>
          /\ Before = "Listening"
          /\ last.pre.tcp_state.pending_result = None
          /\ last.sys = <<"accept">>
    /\ \A o1, o2 \in HandleOwners : HandleOf(o1) = HandleOf(o2) => o1 = o2

\* An accept found a client pending and returned it: the new socket
\* resource holds the client's handle and the listener holds nothing.
C31_Witness ==
    /\ AcceptFoundPending
    /\ last.pre.tcp_state.pending_result.result.tag = "Ok"
    /\ last.res = "Ok"
    /\ table[last.child].inner = last.pre.tcp_state.pending_result.result.client
    /\ table[last.this].tcp_state = [tag |-> "Listening", pending_result |-> None]

\* The pending result of socket resource s in table tbl, None when s is not
\* a listener there.
PendingOf(tbl, s) ==
    IF s \in DOMAIN tbl /\ tbl[s].tcp_state.tag = "Listening"
    THEN tbl[s].tcp_state.pending_result ELSE None

BackendFailed(op, from) ==
    /\ last.op = op
    /\ last.verdict = "Allow"
    /\ Before = from
    /\ last.res # "Ok"

\* C33: a start_bind whose backend call fails leaves the socket in Default,
\* a start_listen whose backend call fails leaves it in Bound, and both
\* leave the backend's is_listening flag as it was (false); the same call
\* made again is then let through to the backend again: it returns neither
\* ConcurrencyConflict nor InvalidState.
C33_FailedStartRetry ==
    [][/\ \A op \in {"start_bind", "start_listen"} :
           LET from == IF op = "start_bind" THEN "Default" ELSE "Bound"
           IN  /\ BackendFailed(op, from)' =>
                    /\ table'[last'.this].tcp_state = last'.pre.tcp_state
                    /\ table'[last'.this].tcp_state.tag = from
                    /\ table'[last'.this].inner.is_listening = last'.pre.inner.is_listening
                    /\ ~table'[last'.this].inner.is_listening
               /\ (/\ BackendFailed(op, from)
                   /\ last'.op = op /\ last'.this = last.this /\ last'.verdict = "Allow") =>
                    /\ last'.res \notin {"ConcurrencyConflict", "InvalidState"}
                    /\ last'.pre.tcp_state.tag = from]_vars

\* The OS refused the listen call of a start_listen on a bound socket: the
\* socket is in Bound and its backend does not count as listening.
C33_Witness ==
    /\ BackendFailed("start_listen", "Bound")
    /\ last.sys = <<"listen">>
    /\ After = "Bound"
    /\ ~table[last.this].inner.is_listening

\* C34: a finish_connect that ends in an error other than WouldBlock and
\* NotInProgress, the failure to register the streams in the resource table
\* among them, leaves the socket in Default; a socket that a finish_connect
\* moved to Connected has had its reader and writer returned to the guest.
C34_ErrorLeavesDefault ==
    last.op = "finish_connect" =>
        /\ last.res \notin {"Ok", "WouldBlock", "NotInProgress"} => After = "Default"
        /\ (Before = "Connecting" /\ After = "Connected") =>
              /\ last.res = "Ok"
              /\ BothLive(last.pre.inner.stream)

\* C35: the backend of a socket resource has is_listening set exactly when
\* the resource is in ListenStarted or Listening.  A start_listen therefore
\* reaches the backend's listen only with the flag unset: called on a
\* socket whose flag is set it is turned away by the state match, with
\* ConcurrencyConflict or InvalidState and no system call, and a
\* start_listen that fails in the backend has issued the OS listen call.
C35_ListeningFlag ==
    /\ \A s \in DOMAIN table :
          table[s].inner.is_listening <=>
              table[s].tcp_state.tag \in {"ListenStarted", "Listening"}
    /\ last.op = "start_listen" =>
          /\ last.pre.inner.is_listening =>
                /\ Before \in {"ListenStarted", "Listening"}
                /\ last.res = (IF Before = "ListenStarted" THEN "ConcurrencyConflict"
                               ELSE "InvalidState")
                /\ last.sys = <<>>
          /\ Before = "Bound" =>
                /\ ~last.pre.inner.is_listening
                /\ last.sys = <<"listen">>

\* A start_listen on a listening socket, its backend flag set: turned away
\* with InvalidState before the backend was asked.
C35_Witness ==
    /\ last.op = "start_listen"
    /\ Before = "Listening"
    /\ last.pre.inner.is_listening
    /\ last.res = "InvalidState"
    /\ last.sys = <<>>
    /\ table[last.this].inner.is_listening

\* C36: is_listening returns ok with true exactly when the socket is in
\* Listening; in ListenStarted, where the OS listen call has been made and
\* the backend counts as listening, it returns false, and so it does in
\* Connected, the state of accepted children; it issues no system call and
\* changes nothing.
C36_IsListening ==
    last.op = "is_listening" =>
        /\ last.res = "Ok"
        /\ last.value \in {0, 1}
        /\ last.value = 1 <=> Before = "Listening"
        /\ (/\ Before = "ListenStarted"
            /\ last.pre.inner.is_listening
            /\ last.pre_os.listening) => last.value = 0
        /\ Before = "Connected" => last.value = 0
        /\ last.sys = <<>>
        /\ StateKept /\ BackendKept

\* is_listening on a socket in ListenStarted, whose handle listens: false.
C36_Witness ==
    /\ last.op = "is_listening"
    /\ Before = "ListenStarted"
    /\ last.pre.inner.is_listening
    /\ last.pre_os.listening
    /\ last.value = 0

\* The states of the bind path, which a socket enters through start_bind,
\* and of the connect path, which it enters through start_connect.
BindPath == {"BindStarted", "Bound", "ListenStarted", "Listening"}
ConnectPath == {"Connecting", "Connected"}

\* C37: in every step, a socket resource that is in the table before and
\* after it (it was not dropped) and was in Connected is in Connected, one
\* that was in Listening is in Listening, and one that was on the bind
\* path is on the bind path: it does not return to Default and reaches
\* neither Connecting nor Connected.  A socket enters the bind path from
\* Default only, in a start_bind, and the connect path from Default only,
\* in a start_connect.
C37_AbsorbingAndDisjoint ==
    [][\A s \in DOMAIN table \cap DOMAIN table' :
          LET from == table[s].tcp_state.tag
              to == table'[s].tcp_state.tag
          IN  /\ from = "Connected" => to = "Connected"
              /\ from = "Listening" => to = "Listening"
              /\ from \in BindPath => to \in BindPath
              /\ (from \notin BindPath /\ to \in BindPath) =>
                    /\ from = "Default" /\ to = "BindStarted"
                    /\ last'.op = "start_bind" /\ last'.this = s
              /\ (from \notin ConnectPath /\ to \in ConnectPath) =>
                    /\ from = "Default" /\ to = "Connecting"
                    /\ last'.op = "start_connect" /\ last'.this = s]_vars

\* A start_connect the capability allows, on a bound socket: InvalidState,
\* and the socket is in Bound.
C37_Witness ==
    /\ last.op = "start_connect"
    /\ last.verdict = "Allow"
    /\ Before = "Bound"
    /\ last.res = "InvalidState"
    /\ After = "Bound"

\* C38: local_address returns InvalidState in Default, ConcurrencyConflict
\* in BindStarted, and in every other state issues the OS call
\* (getsockname) and returns its outcome; remote_address issues the OS call
\* (getpeername) in Connected only, and returns ConcurrencyConflict in
\* Connecting and InvalidState in every other state; a call that is
\* rejected issues no system call, and neither call changes the socket's
\* state, its backend or the OS state of its handle.
C38_AddressCalls ==
    /\ last.op = "local_address" =>
          /\ Before = "Default" => last.res = "InvalidState" /\ last.sys = <<>>
          /\ Before = "BindStarted" => last.res = "ConcurrencyConflict" /\ last.sys = <<>>
          /\ Before \in {"Bound", "ListenStarted", "Listening", "Connecting", "Connected"} =>
                last.sys = <<"getsockname">>
          /\ StateKept /\ BackendKept
    /\ last.op = "remote_address" =>
          /\ Before = "Connected" <=> last.sys = <<"getpeername">>
          /\ Before = "Connecting" => last.res = "ConcurrencyConflict"
          /\ Before \in {"Default", "BindStarted", "Bound", "ListenStarted", "Listening"} =>
                last.res = "InvalidState"
          /\ Before # "Connected" => last.sys = <<>>
          /\ StateKept /\ BackendKept

\* remote_address on a socket whose connect is in progress:
\* ConcurrencyConflict, no system call, the socket still Connecting.
C38_Witness ==
    /\ last.op = "remote_address"
    /\ Before = "Connecting"
    /\ last.res = "ConcurrencyConflict"
    /\ last.sys = <<>>
    /\ After = "Connecting"

\* The latest call was a start_bind that issued the OS bind call.
BindCalled == last.op = "start_bind" /\ "bind" \in Range(last.sys)

\* Address reuse (SO_REUSEADDR) on the handle of the socket of the latest
\* call.  bind changes nothing after its setsockopt call, so this is the
\* option as it was at the moment of the OS bind call.
ReuseAtBind == os[last.pre.inner.stream].reuseaddr

\* C39 as stated: at the moment of every OS bind call, address reuse on the
\* handle equals (requested port > 0).
C39_AsStated ==
    BindCalled => (ReuseAtBind <=> last.addr.port > 0)

\* C39: on the targets other than Windows, every OS bind call comes right
\* after a setsockopt call of the same start_bind, and at that moment
\* address reuse on the handle equals (requested port > 0), whatever
\* earlier failed attempts left on the handle; a start_bind whose
\* setsockopt call fails issues no bind call.  On Windows bind sets no
\* option: the OS bind call is the only system call and address reuse on
\* the handle is as the call found it.
C39_ReuseAtBind ==
    last.op = "start_bind" =>
        IF target_os = "windows"
        THEN /\ last.sys \in {<<>>, <<"bind">>}
             /\ ReuseAtBind = last.pre_os.reuseaddr
        ELSE /\ last.sys \in {<<>>, <<"setsockopt">>, <<"setsockopt", "bind">>}
             /\ BindCalled => (ReuseAtBind <=> last.addr.port > 0)
             /\ last.sys = <<"setsockopt">> =>
                   /\ last.res # "Ok"
                   /\ ReuseAtBind = last.pre_os.reuseaddr

\* A start_bind to port 0 on a handle that an earlier failed attempt left
\* with address reuse enabled: the OS bind call ran with reuse disabled.
C39_Witness ==
    /\ BindCalled
    /\ target_os # "windows"
    /\ last.addr.port = 0
    /\ last.pre_os.reuseaddr
    /\ ~ReuseAtBind

\* The reactor reports the handle of the call in the middle of its loop
\* ready, in the state at hand: readable for accept and read, writable for
\* write.
ReportedReady(osf) ==
    IF last.op = "poll_write" THEN osf[last.pre.inner.stream].writable
    ELSE osf[last.pre.inner.stream].readable

\* A step is a turn of the loop of the call in progress: it changes the
\* call's record or clears the readiness, which no step of the OS or the
\* reactor does.
LoopTurn ==
    /\ Running
    /\ last' # last \/ (ReportedReady(os) /\ ~ReportedReady(os'))

\* C40: the retry loops of accept, read and write end.  In every turn, the
\* non-blocking attempt (the OS call) is made exactly when the reactor
\* reports the handle ready; a turn that finds it not ready ends the loop
\* with Pending (accept: WouldBlock to the guest); a turn goes on to another
\* one only when its attempt would block (the OS answered EAGAIN), and the
\* readiness is then cleared; a turn whose attempt succeeds or fails with
\* another error ends the loop at once.  And every loop that has begun
\* comes to its end.
C40_RetryLoopsEnd ==
    /\ [][LoopTurn =>
            /\ last'.op = last.op
            /\ last'.sys # <<>> <=> ReportedReady(os)
            /\ ~ReportedReady(os) =>
                  /\ last'.res = (IF last.op = "accept" THEN "WouldBlock" ELSE "Pending")
                  /\ os' = os
            /\ Running' <=> (last'.sys # <<>> /\ last'.answer = "EAGAIN")
            /\ Running' => ~ReportedReady(os')]_vars
    /\ Running ~> ~Running

\* An accept in the middle of its loop after a turn whose attempt would
\* block: the OS answered EAGAIN to the accept call and the readiness of
\* the listener's handle is cleared.
C40_Witness ==
    /\ Running
    /\ last.op = "accept"
    /\ last.sys = <<"accept">>
    /\ last.answer = "EAGAIN"
    /\ ~os[last.pre.inner.stream].readable

====
